---- MODULE Spec2Model ----
(***************************************************************************)
(* A model of langchain-couchbase: the keyed LLM cache, the semantic       *)
(* cache, the chat message history and the (search) vector store, each a   *)
(* thin adapter over a Couchbase collection.  The collection, the search   *)
(* index, the embedding function and the langchain_core codec are the      *)
(* environment: their outcomes are drawn nondeterministically.             *)
(***************************************************************************)
EXTENDS Integers, Sequences, FiniteSets, TLC

\* ------------------------------------------------------------------ bounds
\* longest generation list handed to a cache update
MaxGens == 1

\* ------------------------------------------------------- common vocabulary
\* Python's None, where a string-valued slot may be empty
None == "None"

\* the generations a model can produce (opaque payloads)
Gen == {"g1", "g2"}

\* all sequences over S of length 0..n
RECURSIVE SeqsUpTo(_, _)
SeqsUpTo(S, n) ==
    IF n = 0 THEN {<<>>}
    ELSE LET shorter == SeqsUpTo(S, n - 1)
         IN  shorter \cup {Append(s, x) : s \in {t \in shorter : Len(t) = n - 1}, x \in S}

GenLists == SeqsUpTo(Gen, MaxGens)

\* prompts and model identifiers are strings, modelled as character sequences
\* so that prompt + llm_string is a real concatenation
Prompts == {<<"a">>, <<"a", "b">>}
LlmStrings == {<<"b", "c">>, <<"c">>}
\* the (prompt, llm_string) pairs the cache is called with
Pairs == {<<<<"a">>, <<"b", "c">>>>, <<<<"a", "b">>, <<"c">>>>, <<<<"a">>, <<"c">>>>}

\* a return_val handed to update: a generation list, or a value the codec
\* cannot serialise
ReturnVals ==
    {[ok |-> TRUE, val |-> g] : g \in GenLists} \cup {[ok |-> FALSE, val |-> <<>>]}

VARIABLES
    kv,          \* CouchbaseCache._collection: document key -> document
    cacheTtl,    \* CouchbaseCache._ttl (0 stands for None)
    written,     \* per (prompt, llm_string): the value of its last successful update
    cacheRes,    \* outcome of the last CouchbaseCache operation
    records,     \* chat history collection: document key -> chat message record
    clock,       \* the last value time.time() returned
    clockBack,   \* time.time() has returned less than it had before
    nextKey,     \* messages handed to the history so far, plus one
    chatTtl,     \* CouchbaseChatMessageHistory._ttl (0 stands for None)
    chatRes,     \* outcome of the last chat history operation
    docs,        \* vector store collection: document id -> document
    index,       \* the documents as the search index holds them
    deleted,     \* per id: named by a delete and by no add_texts since
    uuidCtr,     \* uuids the vector store has generated
    vsCalls,     \* add_texts and delete calls made on the vector store
    vsRes,       \* outcome of the last vector store operation
    semDocs,     \* semantic cache collection: document id -> document
    semIndex,    \* the documents as the semantic cache's search index holds them
    semCtr,      \* uuids the semantic cache has generated
    score_threshold, \* CouchbaseSemanticCache.score_threshold
    semTtl,      \* CouchbaseSemanticCache._ttl (0 stands for None)
    semRes,      \* outcome of the last semantic cache operation
    ctorArgs,    \* the arguments of a constructor call and the cluster it meets
    ctorRes,     \* outcome of the constructor call
    callArgs,    \* the arguments of a call of a helper function
    callRes      \* what that call returned or raised

cacheVars == <<kv, cacheTtl, written, cacheRes>>
chatVars == <<records, clock, clockBack, nextKey, chatTtl, chatRes>>
vsVars == <<docs, index, deleted, uuidCtr, vsCalls, vsRes>>
semVars == <<semDocs, semIndex, semCtr, score_threshold, semTtl, semRes>>
ctorVars == <<ctorArgs, ctorRes>>
callVars == <<callArgs, callRes>>

vars == <<kv, cacheTtl, written, cacheRes,
          records, clock, clockBack, nextKey, chatTtl, chatRes,
          docs, index, deleted, uuidCtr, vsCalls, vsRes,
          semDocs, semIndex, semCtr, score_threshold, semTtl, semRes,
          ctorArgs, ctorRes, callArgs, callRes>>

\* ------------------------------------------------------------ cache.py codec
CharCode(c) == CASE c = "a" -> 1 [] c = "b" -> 2 [] c = "c" -> 3

\* hashlib.md5(...).hexdigest(): deterministic and, on the inputs of the
\* model, collision free; modelled as the base-4 numeral of the string
RECURSIVE _hash(_)
_hash(_input) ==
    IF _input = <<>> THEN 0
    ELSE 4 * _hash(SubSeq(_input, 1, Len(_input) - 1)) + CharCode(_input[Len(_input)])

\* langchain_core.load.dumps(item): a JSON string holding the serialised item
dumps(_item) == [t |-> "str", st |-> "ok", gen |-> _item]

\* json.dumps(list of strings): a JSON array
json_dumps(items) == [kind |-> "list", items |-> items]

_dumps_generations(generations) ==
    json_dumps([i \in 1..Len(generations) |-> dumps(generations[i])])

\* exceptions _loads_generations handles
Handled == {"JSONDecodeError", "TypeError"}

\* langchain_core.load.loads(item_str) on one element of the decoded array
\* (json.loads of a non-string is a TypeError; the Reviver may reject the
\* object with ValueError/NotImplementedError, reported here as "ValueError")
loads(item) ==
    IF item.t = "dict" THEN [exc |-> "TypeError", gen |-> "g1"]
    ELSE CASE item.st = "ok"        -> [exc |-> None, gen |-> item.gen]
           [] item.st = "notjson"   -> [exc |-> "JSONDecodeError", gen |-> "g1"]
           [] item.st = "badrevive" -> [exc |-> "ValueError", gen |-> "g1"]
           [] OTHER                 -> [exc |-> "JSONDecodeError", gen |-> "g1"]

\* Generation(**generation_dict) on one element of the decoded array
GenerationFromDict(item) ==
    IF item.t = "str" THEN [exc |-> "TypeError", gen |-> "g1"]
    ELSE CASE item.st = "ok"        -> [exc |-> None, gen |-> item.gen]
           [] item.st = "badfields" -> [exc |-> "ValueError", gen |-> "g1"]
           [] OTHER                 -> [exc |-> "TypeError", gen |-> "g1"]

\* a list comprehension [f(x) for x in items]: the first exception raised,
\* in order, ends it
\* (format "current": loads(item); format "legacy": Generation(**item))
RECURSIVE MapItems(_, _, _)
MapItems(format, items, acc) ==
    IF items = <<>> THEN [exc |-> None, val |-> acc]
    ELSE LET r == IF format = "current" THEN loads(Head(items))
                  ELSE GenerationFromDict(Head(items))
         IN  IF r.exc # None THEN [exc |-> r.exc, val |-> <<>>]
             ELSE MapItems(format, Tail(items), Append(acc, r.gen))

\* one parse attempt: json.loads(generations_str), then the comprehension
ParseWith(format, generations_str) ==
    CASE generations_str.kind = "notjson" -> [exc |-> "JSONDecodeError", val |-> <<>>]
      [] generations_str.kind = "scalar"  -> [exc |-> "TypeError", val |-> <<>>]
      [] OTHER                            -> MapItems(format, generations_str.items, <<>>)

\* result: exc = the exception that escapes (None when none does),
\* hit = a list is returned (FALSE stands for the returned None)
_loads_generations(generations_str) ==
    LET first == ParseWith("current", generations_str)
    IN  IF first.exc = None THEN [exc |-> None, hit |-> TRUE, val |-> first.val]
        ELSE IF first.exc \notin Handled THEN [exc |-> first.exc, hit |-> FALSE, val |-> <<>>]
        ELSE LET legacy == ParseWith("legacy", generations_str)
             IN  IF legacy.exc = None THEN [exc |-> None, hit |-> TRUE, val |-> legacy.val]
                 ELSE IF legacy.exc \notin Handled
                      THEN [exc |-> legacy.exc, hit |-> FALSE, val |-> <<>>]
                 ELSE [exc |-> None, hit |-> FALSE, val |-> <<>>]

\* ------------------------------------------------------------ CouchbaseCache
_generate_key(prompt, llm_string) == _hash(prompt \o llm_string)

Keys == {_generate_key(pr[1], pr[2]) : pr \in Pairs}

\* payloads found in a collection that this version did not write itself
ForeignPayloads ==
    { [kind |-> "notjson", items |-> <<>>],
      [kind |-> "scalar", items |-> <<>>],
      [kind |-> "list", items |-> <<[t |-> "dict", st |-> "ok", gen |-> "g1"]>>],
      [kind |-> "list", items |-> <<[t |-> "dict", st |-> "badfields", gen |-> "g1"]>>],
      [kind |-> "list", items |-> <<[t |-> "str", st |-> "badrevive", gen |-> "g1"]>>],
      [kind |-> "list", items |-> <<[t |-> "str", st |-> "notjson", gen |-> "g1"]>>] }

\* documents are records; has_rv = FALSE is a document without "return_val"
ForeignDocs ==
    { [prompt |-> <<>>, llm |-> <<>>, has_rv |-> TRUE, return_val |-> p, expiry |-> FALSE]
        : p \in ForeignPayloads }
    \cup { [prompt |-> <<>>, llm |-> <<>>, has_rv |-> FALSE,
            return_val |-> [kind |-> "notjson", items |-> <<>>], expiry |-> FALSE] }

NoRes == [op |-> "none", prompt |-> <<>>, llm |-> <<>>, backend |-> "ok",
          hit |-> FALSE, val |-> <<>>, raised |-> None]

NotWritten == [set |-> FALSE, val |-> <<>>]

\* the value lookup computes for (prompt, llm_string) from a collection
\* state and the outcome of the backend read
LookupValue(coll, prompt, llm_string, backend) ==
    LET key == _generate_key(prompt, llm_string)
        miss == [exc |-> None, hit |-> FALSE, val |-> <<>>]
    IN  IF backend # "ok" THEN [miss EXCEPT !.exc = "CouchbaseException"]
        ELSE IF key \notin DOMAIN coll THEN [miss EXCEPT !.exc = "DocumentNotFoundException"]
        ELSE IF ~coll[key].has_rv THEN [miss EXCEPT !.exc = "KeyError"]
        ELSE _loads_generations(coll[key].return_val)

\* lookup without its try/except: the exception of the body escapes
CacheLookupResultNoCatch(coll, prompt, llm_string, backend) ==
    LET r == LookupValue(coll, prompt, llm_string, backend)
    IN  [raised |-> r.exc, hit |-> r.hit, val |-> r.val]

\* CouchbaseCache.lookup: every Exception of the body becomes None
CacheLookupResult(coll, prompt, llm_string, backend) ==
    LET r == LookupValue(coll, prompt, llm_string, backend)
    IN  IF r.exc # None THEN [raised |-> None, hit |-> FALSE, val |-> <<>>]
        ELSE [raised |-> None, hit |-> r.hit, val |-> r.val]

CacheLookup(prompt, llm_string, backend) ==
    LET r == CacheLookupResult(kv, prompt, llm_string, backend)
    IN  /\ cacheRes' = [op |-> "lookup", prompt |-> prompt, llm |-> llm_string,
                        backend |-> backend, hit |-> r.hit, val |-> r.val,
                        raised |-> r.raised]
        /\ UNCHANGED <<kv, cacheTtl, written>>

\* CouchbaseCache.update; rv.ok = FALSE is a return_val on which
\* _dumps_generations raises (it runs before the try block)
CacheUpdate(prompt, llm_string, rv, backend) ==
    LET document_key == _generate_key(prompt, llm_string)
        return_val == rv.val
        doc == [prompt |-> prompt, llm |-> llm_string, has_rv |-> TRUE,
                return_val |-> _dumps_generations(return_val),
                expiry |-> (cacheTtl # 0)]
        res == [op |-> "update", prompt |-> prompt, llm |-> llm_string,
                backend |-> backend, hit |-> FALSE, val |-> return_val, raised |-> None]
    IN  IF ~rv.ok
        THEN /\ cacheRes' = [res EXCEPT !.raised = "TypeError", !.backend = "unused"]
             /\ UNCHANGED <<kv, cacheTtl, written>>
        ELSE IF backend = "ok"
        THEN /\ kv' = [k \in DOMAIN kv \cup {document_key} |->
                          IF k = document_key THEN doc ELSE kv[k]]
             /\ written' = [written EXCEPT ![<<prompt, llm_string>>] =
                               [set |-> TRUE, val |-> return_val]]
             /\ cacheRes' = res
             /\ UNCHANGED cacheTtl
        ELSE /\ cacheRes' = res
             /\ UNCHANGED <<kv, cacheTtl, written>>

\* a clear that deletes nothing
CacheClearNothing(backend) ==
    /\ cacheRes' = [NoRes EXCEPT !.op = "clear", !.backend = backend]
    /\ UNCHANGED <<kv, written, cacheTtl>>

\* CouchbaseCache.clear: DELETE FROM `collection`
CacheClear(backend) ==
    /\ cacheRes' = [NoRes EXCEPT !.op = "clear", !.backend = backend]
    /\ IF backend = "ok"
       THEN /\ kv' = <<>>
            /\ written' = [pr \in Pairs |-> NotWritten]
       ELSE UNCHANGED <<kv, written>>
    /\ UNCHANGED cacheTtl

\* the server drops a document whose expiry has passed
CacheExpire(key) ==
    /\ key \in DOMAIN kv
    /\ kv[key].expiry
    /\ kv' = [k \in DOMAIN kv \ {key} |-> kv[k]]
    /\ written' = [pr \in Pairs |->
                      IF _generate_key(pr[1], pr[2]) = key THEN NotWritten ELSE written[pr]]
    /\ cacheRes' = [NoRes EXCEPT !.op = "expire"]
    /\ UNCHANGED cacheTtl

\* another writer (an older release, another application) stores a document
CacheForeignWrite(key, doc) ==
    /\ kv' = [k \in DOMAIN kv \cup {key} |-> IF k = key THEN doc ELSE kv[k]]
    /\ written' = [pr \in Pairs |->
                      IF _generate_key(pr[1], pr[2]) = key THEN NotWritten ELSE written[pr]]
    /\ cacheRes' = [NoRes EXCEPT !.op = "foreign"]
    /\ UNCHANGED cacheTtl

Backends == {"ok", "error"}

\* what the cache operations leave alone
CacheFrame == UNCHANGED <<chatVars, vsVars, semVars, ctorVars, callVars>>

\* (a lookup changes nothing it reads: a lookup right after a lookup would
\* find what the first could have found)
DoCacheLookup ==
    /\ cacheRes.op # "lookup"
    /\ \E pr \in Pairs, b \in Backends : CacheLookup(pr[1], pr[2], b)
    /\ CacheFrame
DoCacheUpdate ==
    /\ \E pr \in Pairs, rv \in ReturnVals, b \in Backends :
          CacheUpdate(pr[1], pr[2], rv, b)
    /\ CacheFrame
DoCacheClear ==
    /\ \E b \in Backends : CacheClear(b)
    /\ CacheFrame
DoCacheExpire ==
    /\ \E k \in Keys : CacheExpire(k)
    /\ CacheFrame
DoCacheForeignWrite ==
    /\ \E k \in Keys, d \in ForeignDocs : CacheForeignWrite(k, d)
    /\ CacheFrame

\* a constructed cache over an empty collection, with or without a ttl
InitCache ==
    /\ kv = <<>>
    /\ cacheTtl \in {0, 1}
    /\ written = [pr \in Pairs |-> NotWritten]
    /\ cacheRes = NoRes

NextCache ==
    \/ DoCacheLookup
    \/ DoCacheUpdate
    \/ DoCacheClear
    \/ DoCacheExpire
    \/ DoCacheForeignWrite

\* ---------------------------------------------- CouchbaseChatMessageHistory
\* chunk size of add_messages (100 in the source, scaled to the model)
DEFAULT_BATCH_SIZE == 2
\* messages handed to one history collection in a behaviour
MaxAdded == 3
\* largest value of time.time()
MaxClock == 1

Sessions == {"s1", "s2"}
Times == 0..MaxClock

\* langchain_core.messages.message_to_dict / messages_from_dict on one message
message_to_dict(message) == [type |-> "human", data |-> message]
message_from_dict(d) == d.data

NoChatRes == [op |-> "none", session |-> "s1", n |-> 0, allOk |-> TRUE,
              first |-> 0, outcomes |-> <<>>, rows |-> <<>>, raised |-> None]

\* outcomes of one insert_multi: all documents stored; an exception raised
\* and nothing stored; or a result with per-key failures (no exception), the
\* documents at the failed positions of the batch not stored
ChunkOutcomes(size) ==
    {[kind |-> "ok", failed |-> {}], [kind |-> "raise", failed |-> {}]}
    \cup {[kind |-> "partial", failed |-> f] : f \in (SUBSET (1..size)) \ {{}}}

\* number of chunks range(0, n, batch_size) yields
NumChunks(n, batch_size) == (n + batch_size - 1) \div batch_size

ChunkSize(n, batch_size, j) ==
    IF j * batch_size <= n THEN batch_size ELSE n - (j - 1) * batch_size

\* one outcome per chunk; the chunks after a raised exception are never sent
OutcomeSeqs(n, batch_size) ==
    {o \in [1..NumChunks(n, batch_size) -> ChunkOutcomes(batch_size)] :
        /\ \A j \in DOMAIN o : o[j].failed \subseteq 1..ChunkSize(n, batch_size, j)
        /\ \A j, l \in DOMAIN o : (j < l /\ o[j].kind = "raise") => o[l].kind = "ok"}

\* the keys of chunk j that reach the collection
ChunkStored(first, n, batch_size, j, outcome) ==
    LET lo == (j - 1) * batch_size + 1
        hi == lo + ChunkSize(n, batch_size, j) - 1
    IN  IF outcome.kind = "raise" THEN {}
        ELSE {first + i - 1 : i \in {x \in lo..hi : (x - lo + 1) \notin outcome.failed}}

\* the for loop over the chunks inside the try block: the chunks before the
\* first raised exception are sent, in order
RECURSIVE InsertBatches(_, _, _, _, _)
InsertBatches(first, n, batch_size, outcomes, j) ==
    IF j > NumChunks(n, batch_size) THEN {}
    ELSE IF outcomes[j].kind = "raise" THEN {}
    ELSE ChunkStored(first, n, batch_size, j, outcomes[j])
            \cup InsertBatches(first, n, batch_size, outcomes, j + 1)

\* a run of time.time() readings moves the clock
ClockAfter(times) == IF times = <<>> THEN clock ELSE times[Len(times)]
WentBack(times) ==
    \E i \in DOMAIN times : times[i] < (IF i = 1 THEN clock ELSE times[i - 1])

\* CouchbaseChatMessageHistory.add_messages on the history of a session:
\* the n messages get the keys nextKey .. nextKey + n - 1 (fresh uuids) and
\* the time.time() readings times[1..n]
AddMessages(session, n, times, outcomes) ==
    LET stored == InsertBatches(nextKey, n, DEFAULT_BATCH_SIZE, outcomes, 1)
        doc(k) == [message |-> message_to_dict(k), session_id |-> session,
                   ts |-> times[k - nextKey + 1], expiry |-> (chatTtl # 0)]
    IN  /\ nextKey + n - 1 <= MaxAdded
        /\ records' = [k \in DOMAIN records \cup stored |->
                          IF k \in stored THEN doc(k) ELSE records[k]]
        /\ nextKey' = nextKey + n
        /\ clock' = ClockAfter(times)
        /\ clockBack' = (clockBack \/ WentBack(times))
        /\ chatRes' = [op |-> "add_messages", session |-> session, n |-> n,
                       allOk |-> (\A j \in DOMAIN outcomes : outcomes[j].kind = "ok"),
                       first |-> nextKey, outcomes |-> outcomes,
                       rows |-> <<>>, raised |-> None]
        /\ UNCHANGED chatTtl

\* an add_message that uses up the ttl of the instance
AddMessageResetsTtl(session, time, backend) ==
    LET doc == [message |-> message_to_dict(nextKey), session_id |-> session,
                ts |-> time, expiry |-> (chatTtl # 0)]
    IN  /\ nextKey <= MaxAdded
        /\ records' = IF backend = "ok"
                      THEN [k \in DOMAIN records \cup {nextKey} |->
                               IF k = nextKey THEN doc ELSE records[k]]
                      ELSE records
        /\ nextKey' = nextKey + 1
        /\ clock' = time
        /\ clockBack' = (clockBack \/ time < clock)
        /\ chatRes' = [op |-> "add_message", session |-> session, n |-> 1,
                       allOk |-> (backend = "ok"), first |-> nextKey, outcomes |-> <<>>,
                       rows |-> <<>>, raised |-> None]
        /\ chatTtl' = 0

\* CouchbaseChatMessageHistory.add_message: one insert inside try/except
AddMessage(session, time, backend) ==
    LET doc == [message |-> message_to_dict(nextKey), session_id |-> session,
                ts |-> time, expiry |-> (chatTtl # 0)]
    IN  /\ nextKey <= MaxAdded
        /\ records' = IF backend = "ok"
                      THEN [k \in DOMAIN records \cup {nextKey} |->
                               IF k = nextKey THEN doc ELSE records[k]]
                      ELSE records
        /\ nextKey' = nextKey + 1
        /\ clock' = time
        /\ clockBack' = (clockBack \/ time < clock)
        /\ chatRes' = [op |-> "add_message", session |-> session, n |-> 1,
                       allOk |-> (backend = "ok"), first |-> nextKey, outcomes |-> <<>>,
                       rows |-> <<>>, raised |-> None]
        /\ UNCHANGED chatTtl

SessionKeys(recs, session) == {k \in DOMAIN recs : recs[k].session_id = session}

\* the row orders an unordered SELECT ... WHERE session_id = $session may stream
AnyOrderRows(recs, session) ==
    LET K == SessionKeys(recs, session)
    IN  {q \in [1..Cardinality(K) -> K] : \A i, j \in DOMAIN q : i # j => q[i] # q[j]}

\* a read whose query lost its ORDER BY clause
UnorderedRows(recs, session) == AnyOrderRows(recs, session)

\* a read whose query orders by ts DESC
DescendingRows(recs, session) ==
    {q \in AnyOrderRows(recs, session) :
        \A i, j \in DOMAIN q : i < j => recs[q[i]].ts >= recs[q[j]].ts}

\* the row orders SELECT ... WHERE session_id = $session ORDER BY ts ASC may
\* stream: every record of the session once, timestamps ascending
OrderedRows(recs, session) ==
    {q \in AnyOrderRows(recs, session) :
        \A i, j \in DOMAIN q : i < j => recs[q[i]].ts <= recs[q[j]].ts}

\* the `messages` property: failAt = 0 is a query that streams every row,
\* failAt = i > 0 one that raises at its i-th step (submission or a row),
\* after i - 1 rows were appended to message_items
ReadMessages(session, order, failAt) ==
    LET items == IF failAt = 0 THEN order ELSE SubSeq(order, 1, failAt - 1)
    IN  /\ chatRes' = [op |-> "messages", session |-> session, n |-> Len(order),
                       allOk |-> (failAt = 0), first |-> 0, outcomes |-> <<>>,
                       rows |-> [i \in DOMAIN items |->
                                    message_from_dict(records[items[i]].message)],
                       raised |-> None]
        /\ UNCHANGED <<records, clock, clockBack, nextKey, chatTtl>>

\* a clear whose DELETE has no WHERE clause
ChatClearAll(session, backend) ==
    /\ records' = IF backend = "ok" THEN <<>> ELSE records
    /\ chatRes' = [NoChatRes EXCEPT !.op = "clear", !.session = session,
                                    !.n = Cardinality(SessionKeys(records, session)),
                                    !.allOk = (backend = "ok")]
    /\ UNCHANGED <<clock, clockBack, nextKey, chatTtl>>

\* CouchbaseChatMessageHistory.clear: DELETE ... WHERE session_id = $session
\* (n: the records of the session when the query is sent)
ChatClear(session, backend) ==
    /\ records' = IF backend = "ok"
                  THEN [k \in DOMAIN records \ SessionKeys(records, session) |-> records[k]]
                  ELSE records
    /\ chatRes' = [NoChatRes EXCEPT !.op = "clear", !.session = session,
                                    !.n = Cardinality(SessionKeys(records, session)),
                                    !.allOk = (backend = "ok")]
    /\ UNCHANGED <<clock, clockBack, nextKey, chatTtl>>

\* the setter of `messages`: an assignment to history.messages
SetMessages(session) ==
    /\ chatRes' = [NoChatRes EXCEPT !.op = "set_messages", !.session = session,
                                    !.raised = "NotImplementedError"]
    /\ UNCHANGED <<records, clock, clockBack, nextKey, chatTtl>>

\* the server drops a record whose expiry has passed
ChatExpire(key) ==
    /\ key \in DOMAIN records
    /\ records[key].expiry
    /\ records' = [k \in DOMAIN records \ {key} |-> records[k]]
    /\ chatRes' = [NoChatRes EXCEPT !.op = "expire"]
    /\ UNCHANGED <<clock, clockBack, nextKey, chatTtl>>

ChatFrame == UNCHANGED <<cacheVars, vsVars, semVars, ctorVars, callVars>>

DoAddMessages ==
    /\ \E n \in 0..(MaxAdded - nextKey + 1) :
          \E outcomes \in OutcomeSeqs(n, DEFAULT_BATCH_SIZE) :
              \E session \in Sessions, times \in [1..n -> Times] :
                  AddMessages(session, n, times, outcomes)
    /\ ChatFrame
DoAddMessage ==
    /\ \E session \in Sessions, time \in Times, b \in Backends :
          AddMessage(session, time, b)
    /\ ChatFrame
\* (a read changes nothing it reads: a read right after a read would return
\* what the first could have returned)
DoReadMessages ==
    /\ chatRes.op \notin {"messages", "set_messages"}
    /\ \E session \in Sessions :
          \E order \in OrderedRows(records, session) :
              \E failAt \in 0..(Len(order) + 1) : ReadMessages(session, order, failAt)
    /\ ChatFrame
DoChatClear ==
    /\ \E session \in Sessions, b \in Backends : ChatClear(session, b)
    /\ ChatFrame
DoSetMessages ==
    /\ chatRes.op \notin {"messages", "set_messages"}
    /\ \E session \in Sessions : SetMessages(session)
    /\ ChatFrame
DoChatExpire ==
    /\ \E k \in 1..MaxAdded : ChatExpire(k)
    /\ ChatFrame

\* constructed histories (one per session) over an empty collection
InitChat ==
    /\ records = <<>>
    /\ clock = 0
    /\ clockBack = FALSE
    /\ nextKey = 1
    /\ chatTtl \in {0, 1}
    /\ chatRes = NoChatRes

NextChat ==
    \/ DoAddMessages
    \/ DoAddMessage
    \/ DoReadMessages
    \/ DoChatClear
    \/ DoSetMessages
    \/ DoChatExpire

\* ------------------------------------------------------ CouchbaseVectorStore
\* CouchbaseVectorStore.DEFAULT_BATCH_SIZE
VS_DEFAULT_BATCH_SIZE == 100
\* uuids add_texts may generate in a behaviour of the vector store
MaxUuid == 2

\* texts are strings, as the prompts are
Texts == Prompts
\* the texts lists add_texts is called with
TextLists == {<<>>, <<<<"a">>>>, <<<<"a", "b">>>>, <<<<"a">>, <<"a", "b">>>>}
\* document ids: the ones callers supply, and uuid.uuid4().hex values (the
\* i-th one generated is <<"u", i>>)
CallerIds == {<<"a">>, <<"b">>}
uuid4(i) == <<"u", i>>
AllIds == CallerIds \cup {uuid4(i) : i \in 1..MaxUuid}
\* the ids lists add_texts and delete are called with
IdLists == {<<>>, <<<<"a">>>>, <<<<"b">>>>, <<<<"a">>, <<"b">>>>, <<<<"a">>, <<"a">>>>}

\* field names are strings, modelled as token sequences: "metadata.page" is
\* <<"metadata", ".", "page">>
_metadata_key == <<"metadata">>
_default_text_key == <<"text">>
Star == <<"*">>
NoMetadata == [k \in {} |-> <<>>]
PageMetadata == [k \in {<<"page">>} |-> <<"1">>]

\* keyword arguments (**kwargs): the names passed and, per name, its value
NoKwargs == [names |-> {}, fields |-> <<>>, pre_filter |-> <<>>, ttl |-> 0, batch_size |-> 0]
\* kwargs.get(name, default) for the keywords the code reads
KwFields(kwargs) == IF "fields" \in kwargs.names THEN kwargs.fields ELSE <<Star>>
\* (a ttl is a number of seconds; 0 is None as well as timedelta(0), both
\* false in `if ttl:`)
KwTtl(kwargs) == IF "ttl" \in kwargs.names THEN kwargs.ttl ELSE 0
KwBatchSize(kwargs) ==
    IF "batch_size" \in kwargs.names THEN kwargs.batch_size ELSE VS_DEFAULT_BATCH_SIZE

\* the embedding function: a vector per text; the index scores by dot product
embed_query(text) == IF Len(text) = 1 THEN <<1, 0>> ELSE <<0 - 1, 1>>
embed_documents(texts) == [i \in DOMAIN texts |-> embed_query(texts[i])]
Dot(u, v) == u[1] * v[1] + u[2] * v[2]

Min(x, y) == IF x <= y THEN x ELSE y
SeqRange(seq) == {seq[i] : i \in DOMAIN seq}
\* a batch slice that ignores its offset
SliceNoOffset(seq, i, size) ==
    [p \in 1..Min(size, Len(seq)) |-> seq[p]]

\* seq[i : i + size], i counted from zero
Slice(seq, i, size) == SubSeq(seq, i + 1, Min(Len(seq), i + size))
\* len(range(0, n, batch_size)) for a positive batch_size
VSNumChunks(n, batch_size) == (n + batch_size - 1) \div batch_size

\* the keys of the dict built from a batch, in insertion order: a repeated
\* key keeps its first position (and its last value)
RECURSIVE DictKeys(_)
DictKeys(ids) ==
    IF ids = <<>> THEN <<>>
    ELSE LET rest == DictKeys(SubSeq(ids, 1, Len(ids) - 1))
             last == ids[Len(ids)]
         IN  IF last \in SeqRange(rest) THEN rest ELSE Append(rest, last)

LastIndexOf(ids, id) ==
    CHOOSE i \in DOMAIN ids : ids[i] = id /\ \A j \in DOMAIN ids : ids[j] = id => j <= i

\* what upsert_multi does with the chunk it is sent (kind) and which of its
\* keys (by position) reach the collection when it fails (stored): "partial" is a result
\* whose all_ok is false, "exists" a DocumentExistsException, "error" any
\* other exception; failAt = 0 is a call all of whose chunks fully succeed
AddOk == [failAt |-> 0, kind |-> "ok", stored |-> {}]
AddFailKinds == {"partial", "error"}

\* the for loop of add_texts from offset i on; acc = [docs, doc_ids, raised]
RECURSIVE AddBatches(_, _, _, _, _, _, _, _)
AddBatches(acc, texts, metadatas, ids, batch_size, ttl, outcome, i) ==
    IF i >= Len(texts) \/ acc.raised # None THEN acc
    ELSE LET batch_texts == Slice(texts, i, batch_size)
             batch_metadatas == Slice(metadatas, i, batch_size)
             batch_ids == Slice(ids, i, batch_size)
             batch_embedded_texts == embed_documents(batch_texts)
             n == Min(Min(Len(batch_ids), Len(batch_texts)), Len(batch_metadatas))
             zipped == SubSeq(batch_ids, 1, n)
             keys == DictKeys(zipped)
             doc(id) == LET p == LastIndexOf(zipped, id)
                        IN  [text |-> batch_texts[p], metadata |-> batch_metadatas[p],
                             embedding |-> batch_embedded_texts[p], expiry |-> (ttl # 0)]
             failed == outcome.failAt = (i \div batch_size) + 1
             sent == IF failed THEN {keys[p] : p \in DOMAIN keys \cap outcome.stored}
                     ELSE SeqRange(keys)
             docs2 == [id \in DOMAIN acc.docs \cup sent |->
                          IF id \in sent THEN doc(id) ELSE acc.docs[id]]
         IN  IF failed
             THEN [docs |-> docs2, doc_ids |-> acc.doc_ids,
                   attempted |-> acc.attempted + 1,
                   raised |-> IF outcome.kind \in {"partial", "exists"} THEN "ValueError"
                              ELSE "CouchbaseException"]
             ELSE AddBatches([docs |-> docs2, doc_ids |-> acc.doc_ids \o keys,
                              attempted |-> acc.attempted + 1, raised |-> None],
                             texts, metadatas, ids, batch_size, ttl, outcome, i + batch_size)

\* add_texts that undoes its writes when a chunk fails
add_texts_atomic(coll, ctr, texts, meta_given, metadatas, ids_given, ids, batch_size, kwargs, outcome) ==
    LET batch_size2 == IF batch_size = 0 THEN VS_DEFAULT_BATCH_SIZE ELSE batch_size
        ids2 == IF ids_given THEN ids ELSE [i \in DOMAIN texts |-> uuid4(ctr + i)]
        metadatas2 == IF meta_given THEN metadatas ELSE [i \in DOMAIN texts |-> NoMetadata]
        start == [docs |-> coll, doc_ids |-> <<>>, attempted |-> 0, raised |-> None]
        r == IF batch_size2 < 0 THEN start
             ELSE AddBatches(start, texts, metadatas2, ids2, batch_size2, KwTtl(kwargs),
                             outcome, 0)
    IN  IF r.raised # None THEN [r EXCEPT !.docs = coll] ELSE r

\* add_texts that leaves a document alone when its id is already stored
add_texts_insert(coll, ctr, texts, meta_given, metadatas, ids_given, ids, batch_size, kwargs, outcome) ==
    LET batch_size2 == IF batch_size = 0 THEN VS_DEFAULT_BATCH_SIZE ELSE batch_size
        ids2 == IF ids_given THEN ids ELSE [i \in DOMAIN texts |-> uuid4(ctr + i)]
        metadatas2 == IF meta_given THEN metadatas ELSE [i \in DOMAIN texts |-> NoMetadata]
        start == [docs |-> coll, doc_ids |-> <<>>, attempted |-> 0, raised |-> None]
        r == IF batch_size2 < 0 THEN start
             ELSE AddBatches(start, texts, metadatas2, ids2, batch_size2, KwTtl(kwargs),
                             outcome, 0)
    IN  [r EXCEPT !.docs = [id \in DOMAIN r.docs |->
                               IF id \in DOMAIN coll THEN coll[id] ELSE r.docs[id]]]

\* CouchbaseVectorStore.add_texts on the collection coll: ids_given = FALSE is
\* ids=None (the uuids after the ctr-th are used), meta_given = FALSE is
\* metadatas=None, batch_size = 0 is batch_size=None
add_texts(coll, ctr, texts, meta_given, metadatas, ids_given, ids, batch_size, kwargs, outcome) ==
    LET batch_size2 == IF batch_size = 0 THEN VS_DEFAULT_BATCH_SIZE ELSE batch_size
        ids2 == IF ids_given THEN ids ELSE [i \in DOMAIN texts |-> uuid4(ctr + i)]
        metadatas2 == IF meta_given THEN metadatas ELSE [i \in DOMAIN texts |-> NoMetadata]
        ttl == KwTtl(kwargs)
        start == [docs |-> coll, doc_ids |-> <<>>, attempted |-> 0, raised |-> None]
    IN  \* range(0, len(texts), batch_size) is empty when batch_size < 0
        IF batch_size2 < 0 THEN start
        ELSE AddBatches(start, texts, metadatas2, ids2, batch_size2, ttl, outcome, 0)

\* what remove_multi does with the chunks of one delete call: the keys in
\* `failed`, and every key that is not stored, are reported as failures in
\* the result (all_ok false); chunk raiseAt (0: none) raises instead, a
\* DocumentNotFoundException ("notfound") or another exception ("error"),
\* after removing what it could
DeleteKinds == {"notfound", "error"}

\* a loop that keeps the all_ok of the last chunk only
RECURSIVE DeleteBatchesLastWins(_, _, _, _, _)
DeleteBatchesLastWins(acc, ids, batch_size, outcome, i) ==
    IF i >= Len(ids) \/ acc.raised # None THEN acc
    ELSE LET batch == Slice(ids, i, batch_size)
             missing == {id \in SeqRange(batch) : id \notin DOMAIN acc.docs}
             not_removed == missing \cup (SeqRange(batch) \cap outcome.failed)
             docs2 == [id \in DOMAIN acc.docs \ (SeqRange(batch) \ not_removed) |->
                          acc.docs[id]]
         IN  IF outcome.raiseAt = (i \div batch_size) + 1
             THEN [acc EXCEPT !.docs = docs2, !.deletion_status = FALSE,
                              !.raised = "ValueError"]
             ELSE DeleteBatchesLastWins(
                      [docs |-> docs2, deletion_status |-> (not_removed = {}),
                       chunk_ok |-> Append(acc.chunk_ok, not_removed = {}),
                       raised |-> None],
                      ids, batch_size, outcome, i + batch_size)

\* a loop that notes a document-not-found and goes on with the next chunk
RECURSIVE DeleteBatchesSkipNotFound(_, _, _, _, _)
DeleteBatchesSkipNotFound(acc, ids, batch_size, outcome, i) ==
    IF i >= Len(ids) \/ acc.raised # None THEN acc
    ELSE LET batch == Slice(ids, i, batch_size)
             missing == {id \in SeqRange(batch) : id \notin DOMAIN acc.docs}
             not_removed == missing \cup (SeqRange(batch) \cap outcome.failed)
             docs2 == [id \in DOMAIN acc.docs \ (SeqRange(batch) \ not_removed) |->
                          acc.docs[id]]
             raises == outcome.raiseAt = (i \div batch_size) + 1
         IN  IF raises /\ outcome.kind # "notfound"
             THEN [docs |-> docs2, deletion_status |-> FALSE, chunk_ok |-> acc.chunk_ok,
                   raised |-> "CouchbaseException"]
             ELSE DeleteBatchesSkipNotFound(
                      [docs |-> docs2,
                       deletion_status |-> (acc.deletion_status /\ not_removed = {} /\ ~raises),
                       chunk_ok |-> Append(acc.chunk_ok, not_removed = {} /\ ~raises),
                       raised |-> None],
                      ids, batch_size, outcome, i + batch_size)

\* the for loop of delete from offset i on; acc = [docs, deletion_status,
\* chunk_ok, raised], chunk_ok being result.all_ok of the chunks that returned
RECURSIVE DeleteBatches(_, _, _, _, _)
DeleteBatches(acc, ids, batch_size, outcome, i) ==
    IF i >= Len(ids) \/ acc.raised # None THEN acc
    ELSE LET batch == Slice(ids, i, batch_size)
             missing == {id \in SeqRange(batch) : id \notin DOMAIN acc.docs}
             not_removed == missing \cup (SeqRange(batch) \cap outcome.failed)
             docs2 == [id \in DOMAIN acc.docs \ (SeqRange(batch) \ not_removed) |->
                          acc.docs[id]]
             raises == outcome.raiseAt = (i \div batch_size) + 1
         IN  IF raises
             THEN [docs |-> docs2, deletion_status |-> FALSE, chunk_ok |-> acc.chunk_ok,
                   raised |-> IF outcome.kind = "notfound" THEN "ValueError"
                              ELSE "CouchbaseException"]
             ELSE DeleteBatches([docs |-> docs2,
                                 deletion_status |-> (acc.deletion_status /\ not_removed = {}),
                                 chunk_ok |-> Append(acc.chunk_ok, not_removed = {}),
                                 raised |-> None],
                                ids, batch_size, outcome, i + batch_size)

\* a delete whose chunks are sent but remove nothing
DeleteNothing(coll, ids_given, ids, kwargs, outcome) ==
    [docs |-> coll, deletion_status |-> TRUE, chunk_ok |-> <<>>, raised |-> None]

\* CouchbaseVectorStore.delete: ids_given = FALSE is ids=None
delete(coll, ids_given, ids, kwargs, outcome) ==
    LET batch_size == KwBatchSize(kwargs)
        start == [docs |-> coll, deletion_status |-> TRUE, chunk_ok |-> <<>>, raised |-> None]
    IN  IF ~ids_given THEN [start EXCEPT !.raised = "ValueError"]
        \* range() arg 3 must not be zero
        ELSE IF batch_size = 0 THEN [start EXCEPT !.raised = "ValueError"]
        ELSE IF batch_size < 0 THEN start
        ELSE DeleteBatches(start, ids, batch_size, outcome, 0)

\* ---- similarity search
StartsWith(key, prefix) ==
    Len(key) >= Len(prefix) /\ SubSeq(key, 1, Len(prefix)) = prefix

\* key.split(sep)[-1]: what follows the last occurrence of sep in key, the
\* whole key when sep does not occur
SplitLast(key, sep) ==
    LET occ == {i \in 1..(Len(key) - Len(sep) + 1) : SubSeq(key, i, i + Len(sep) - 1) = sep}
    IN  IF occ = {} THEN key
        ELSE LET i == CHOOSE x \in occ : \A y \in occ : y <= x
             IN  SubSeq(key, i + Len(sep), Len(key))

\* the key _format_metadata files a returned field under
NewKey(key) ==
    IF StartsWith(key, _metadata_key) THEN SplitLast(key, _metadata_key \o <<".">>)
    ELSE key

\* CouchbaseVectorStore._format_metadata (two fields that are filed under one
\* key do not occur in the rows of the model)
_format_metadata(row_fields) ==
    LET renamed == {<<NewKey(key), key>> : key \in DOMAIN row_fields}
    IN  [new_key \in {p[1] : p \in renamed} |->
            row_fields[(CHOOSE p \in renamed : p[1] = new_key)[2]]]

\* the fields the search service holds for an indexed document
StoredFields(doc) ==
    [f \in {_default_text_key} \cup {_metadata_key \o <<".">> \o k : k \in DOMAIN doc.metadata} |->
        IF f = _default_text_key THEN doc.text
        ELSE doc.metadata[SubSeq(f, 3, Len(f))]]

\* row.fields for a request that names `fields`
RowFields(doc, fields) ==
    LET stored == StoredFields(doc)
        wanted == IF Star \in SeqRange(fields) THEN DOMAIN stored
                  ELSE DOMAIN stored \cap SeqRange(fields)
    IN  [f \in wanted |-> stored[f]]

\* the row orders the search service may stream for a k-nearest-neighbour
\* request on the index idx: the k best scoring documents, best first
KnnRows(idx, vector, k) ==
    LET m == Min(k, Cardinality(DOMAIN idx))
        score(id) == Dot(idx[id].embedding, vector)
    IN  {q \in [1..m -> DOMAIN idx] :
            /\ \A i, j \in 1..m : i < j => (q[i] # q[j] /\ score(q[i]) >= score(q[j]))
            /\ \A id \in DOMAIN idx \ SeqRange(q) : \A i \in 1..m : score(id) <= score(q[i])}

\* every order the search service may stream the k best scoring documents
\* in: best first unless search_options (passed on as raw options) asks for
\* another sort
StreamOrders(idx, vector, k) ==
    LET m == Min(k, Cardinality(DOMAIN idx))
        score(id) == Dot(idx[id].embedding, vector)
    IN  {q \in [1..m -> DOMAIN idx] :
            /\ \A i, j \in 1..m : i < j => q[i] # q[j]
            /\ \A id \in DOMAIN idx \ SeqRange(q) : \A i \in 1..m : score(id) <= score(q[i])}

\* outcomes of the search call: the rows are streamed ("ok"), the service
\* fails ("error"), or the index stores no fields, so that row.fields is
\* empty on every row ("nofields")
SearchBackends == {"ok", "error", "nofields"}
\* further outcomes: row.fields is empty on the first or on the last row
\* only, or the index does not store the text field ("notext")
RowBackends == SearchBackends \cup {"nofields_first", "nofields_last", "notext"}

Document(id, page_content, metadata) ==
    [id |-> id, page_content |-> page_content, metadata |-> metadata]

\* the field list sent with fields as the caller gave it
SentFieldsAsGiven(kwargs) == KwFields(kwargs)

\* the field list of the search request: the caller's, with the text key
\* appended unless it is ["*"] or names the text key
SentFields(kwargs) ==
    LET fields == KwFields(kwargs)
    IN  IF fields # <<Star>> /\ _default_text_key \notin SeqRange(fields)
        THEN Append(fields, _default_text_key)
        ELSE fields

\* the caller's fields list when the search returns: kwargs.get hands the
\* code the caller's own list object, and the append is made on that object
\* (<<>> stands for no list when the keyword was left out)
CallerFieldsAfter(kwargs) ==
    IF "fields" \in kwargs.names THEN SentFields(kwargs) ELSE <<>>

\* row.fields of the i-th of n streamed rows
StreamedFields(doc, fields, backend, i, n) ==
    LET row_fields == RowFields(doc, fields)
    IN  IF \/ backend = "nofields"
           \/ backend = "nofields_first" /\ i = 1
           \/ backend = "nofields_last" /\ i = n
        THEN [f \in {} |-> <<>>]
        ELSE IF backend = "notext"
        THEN [f \in DOMAIN row_fields \ {_default_text_key} |-> row_fields[f]]
        ELSE row_fields

\* the Document built from a row that has fields: the text is popped from
\* the fields (empty when absent), the rest becomes the metadata
RowDocument(id, row_fields) ==
    LET text == IF _default_text_key \in DOMAIN row_fields
                THEN row_fields[_default_text_key]
                ELSE <<>>
        popped == [f \in DOMAIN row_fields \ {_default_text_key} |-> row_fields[f]]
    IN  Document(id, text, _format_metadata(popped))

\* the loop body of similarity_search_with_score_by_vector for the i-th of n
\* streamed rows: has_fields = FALSE is a row whose fields are empty (the
\* ValueError)
ParseRow(id, doc, fields, embedding, backend, i, n) ==
    LET row_fields == StreamedFields(doc, fields, backend, i, n)
    IN  [has_fields |-> DOMAIN row_fields # {},
         doc |-> RowDocument(id, row_fields),
         score |-> Dot(doc.embedding, embedding)]

\* the pairs in descending order of score
RECURSIVE SortedByScore(_)
SortedByScore(pairs) ==
    IF pairs = <<>> THEN <<>>
    ELSE LET i == CHOOSE x \in DOMAIN pairs :
                      /\ \A y \in DOMAIN pairs : pairs[y].score <= pairs[x].score
                      /\ \A y \in 1..(x - 1) : pairs[y].score < pairs[x].score
             rest == [p \in 1..(Len(pairs) - 1) |-> IF p < i THEN pairs[p] ELSE pairs[p + 1]]
         IN  <<pairs[i]>> \o SortedByScore(rest)

\* a search that returns its pairs best score first
SearchSorted(idx, embedding, k, kwargs, rows, backend) ==
    LET fields == SentFields(kwargs)
        n == Len(rows)
    IN  IF backend = "error" THEN [raised |-> "ValueError", docs_with_score |-> <<>>]
        ELSE IF \E i \in DOMAIN rows :
                   ~ParseRow(rows[i], idx[rows[i]], fields, embedding, backend, i, n).has_fields
             THEN [raised |-> "ValueError", docs_with_score |-> <<>>]
        ELSE [raised |-> None,
              docs_with_score |->
                  SortedByScore(
                      [i \in DOMAIN rows |->
                          LET row == ParseRow(rows[i], idx[rows[i]], fields, embedding,
                                              backend, i, n)
                          IN  [doc |-> row.doc, score |-> row.score]])]

\* a search that skips a row without fields
RECURSIVE RowsWithFields(_, _, _, _, _, _, _)
RowsWithFields(idx, fields, embedding, rows, backend, i, n) ==
    IF i > n THEN <<>>
    ELSE LET row == ParseRow(rows[i], idx[rows[i]], fields, embedding, backend, i, n)
             rest == RowsWithFields(idx, fields, embedding, rows, backend, i + 1, n)
         IN  IF row.has_fields THEN <<[doc |-> row.doc, score |-> row.score]>> \o rest
             ELSE rest

SearchSkipsEmptyRows(idx, embedding, k, kwargs, rows, backend) ==
    IF backend = "error" THEN [raised |-> "ValueError", docs_with_score |-> <<>>]
    ELSE [raised |-> None,
          docs_with_score |->
              RowsWithFields(idx, SentFields(kwargs), embedding, rows, backend, 1, Len(rows))]

\* CouchbaseVectorStore.similarity_search_with_score_by_vector over the index
\* idx, `rows` being the ids of the rows the service streams
similarity_search_with_score_by_vector(idx, embedding, k, kwargs, rows, backend) ==
    LET fields == SentFields(kwargs)
        n == Len(rows)
    IN  IF backend = "error" THEN [raised |-> "ValueError", docs_with_score |-> <<>>]
        ELSE IF \E i \in DOMAIN rows :
                   ~ParseRow(rows[i], idx[rows[i]], fields, embedding, backend, i, n).has_fields
             THEN [raised |-> "ValueError", docs_with_score |-> <<>>]
        ELSE [raised |-> None,
              docs_with_score |->
                  [i \in DOMAIN rows |->
                      LET row == ParseRow(rows[i], idx[rows[i]], fields, embedding,
                                          backend, i, n)
                      IN  [doc |-> row.doc, score |-> row.score]]]

similarity_search_with_score(idx, query, k, kwargs, rows, backend) ==
    similarity_search_with_score_by_vector(idx, embed_query(query), k, kwargs, rows, backend)

\* [doc for doc, _ in docs_with_score]
DocsOf(r) ==
    [raised |-> r.raised,
     docs |-> [i \in DOMAIN r.docs_with_score |-> r.docs_with_score[i].doc],
     scores |-> <<>>]

\* a list of (document, score) pairs as its documents and its scores
DocsAndScores(r) ==
    [raised |-> r.raised,
     docs |-> [i \in DOMAIN r.docs_with_score |-> r.docs_with_score[i].doc],
     scores |-> [i \in DOMAIN r.docs_with_score |-> r.docs_with_score[i].score]]

similarity_search_by_vector(idx, embedding, k, kwargs, rows, backend) ==
    DocsOf(similarity_search_with_score_by_vector(idx, embedding, k, kwargs, rows, backend))

similarity_search(idx, query, k, kwargs, rows, backend) ==
    DocsOf(similarity_search_with_score_by_vector(idx, embed_query(query), k, kwargs,
                                                  rows, backend))

\* ---- the operations of a constructed vector store
\* add_texts and delete calls in a behaviour
MaxCalls == 1

NoVsRes == [op |-> "none", texts |-> <<>>, ids_given |-> FALSE, ids |-> <<>>,
            meta_len |-> 0, batch_size |-> 0, ttl_given |-> FALSE, ttl |-> 0,
            fail_at |-> 0, attempted |-> 0, all_ok |-> TRUE, ret |-> <<>>,
            chunk_ok |-> <<>>, raise_kind |-> "none", existed |-> {},
            query |-> <<>>, k |-> 0, kwargs |-> NoKwargs, sent_fields |-> <<>>,
            rows |-> <<>>, backend |-> "none", fields_after |-> <<>>,
            status |-> TRUE, docs |-> <<>>, scores |-> <<>>, raised |-> None]

SearchOps == {"similarity_search", "similarity_search_with_score",
              "similarity_search_by_vector", "similarity_search_with_score_by_vector"}

\* the ids an add_texts call names: the caller's, or the uuids it generates
NamedIds(ctr, texts, ids_given, ids) ==
    IF ids_given THEN SeqRange(ids) ELSE {uuid4(ctr + i) : i \in DOMAIN texts}

AddTexts(texts, meta_len, ids_given, ids, batch_size, kwargs, outcome) ==
    LET metadatas == [i \in 1..meta_len |-> PageMetadata]
        r == add_texts(docs, uuidCtr, texts, meta_len >= 0, metadatas, ids_given, ids,
                       batch_size, kwargs, outcome)
    IN  /\ vsCalls < MaxCalls
        /\ ~ids_given => uuidCtr + Len(texts) <= MaxUuid
        /\ vsCalls' = vsCalls + 1
        /\ docs' = r.docs
        /\ uuidCtr' = IF ids_given THEN uuidCtr ELSE uuidCtr + Len(texts)
        /\ deleted' = [id \in AllIds |->
                          IF id \in NamedIds(uuidCtr, texts, ids_given, ids) THEN "no"
                          ELSE deleted[id]]
        /\ vsRes' = [NoVsRes EXCEPT !.op = "add_texts", !.texts = texts,
                                    !.ids_given = ids_given, !.ids = ids,
                                    !.meta_len = meta_len, !.batch_size = batch_size,
                                    !.ttl_given = ("ttl" \in kwargs.names),
                                    !.ttl = KwTtl(kwargs),
                                    !.existed = NamedIds(uuidCtr, texts, ids_given, ids)
                                                    \cap DOMAIN docs,
                                    !.fail_at = outcome.failAt,
                                    !.attempted = r.attempted,
                                    !.all_ok = (outcome.failAt = 0),
                                    !.ret = r.doc_ids, !.raised = r.raised]
        /\ UNCHANGED index

Delete(ids_given, ids, kwargs, outcome) ==
    LET r == delete(docs, ids_given, ids, kwargs, outcome)
        done == r.raised = None /\ r.deletion_status /\ KwBatchSize(kwargs) > 0
    IN  /\ vsCalls < MaxCalls
        /\ vsCalls' = vsCalls + 1
        /\ docs' = r.docs
        /\ deleted' = [id \in AllIds |->
                          IF ~ids_given \/ id \notin SeqRange(ids) THEN deleted[id]
                          ELSE IF done \/ deleted[id] = "ok" THEN "ok"
                          ELSE "called"]
        /\ vsRes' = [NoVsRes EXCEPT !.op = "delete", !.ids_given = ids_given, !.ids = ids,
                                    !.batch_size = KwBatchSize(kwargs),
                                    !.all_ok = (outcome.raiseAt = 0 /\ outcome.failed = {}),
                                    !.chunk_ok = r.chunk_ok,
                                    !.raise_kind = outcome.kind,
                                    !.status = r.deletion_status, !.raised = r.raised]
        /\ UNCHANGED <<index, uuidCtr>>

Search(op, query, k, kwargs, rows, backend) ==
    LET embedding == embed_query(query)
        r == CASE op = "similarity_search" ->
                    similarity_search(index, query, k, kwargs, rows, backend)
               [] op = "similarity_search_by_vector" ->
                    similarity_search_by_vector(index, embedding, k, kwargs, rows, backend)
               [] op = "similarity_search_with_score" ->
                    DocsAndScores(similarity_search_with_score(index, query, k, kwargs,
                                                               rows, backend))
               [] OTHER ->
                    DocsAndScores(similarity_search_with_score_by_vector(
                                      index, embedding, k, kwargs, rows, backend))
    IN  /\ vsRes' = [NoVsRes EXCEPT !.op = op, !.query = query, !.k = k,
                                    !.kwargs = kwargs,
                                    !.sent_fields = SentFields(kwargs),
                                    !.fields_after = CallerFieldsAfter(kwargs),
                                    !.rows = rows, !.backend = backend,
                                    !.docs = r.docs, !.scores = r.scores,
                                    !.raised = r.raised]
        /\ UNCHANGED <<docs, index, deleted, uuidCtr, vsCalls>>

\* the search service catches up with the collection
IndexRefresh ==
    /\ index # docs
    /\ index' = docs
    /\ vsRes' = [NoVsRes EXCEPT !.op = "refresh"]
    /\ UNCHANGED <<docs, deleted, uuidCtr, vsCalls>>

\* the server drops a document whose expiry has passed
VSExpire(id) ==
    /\ id \in DOMAIN docs
    /\ docs[id].expiry
    /\ docs' = [x \in DOMAIN docs \ {id} |-> docs[x]]
    /\ vsRes' = [NoVsRes EXCEPT !.op = "expire"]
    /\ UNCHANGED <<index, deleted, uuidCtr, vsCalls>>

\* the arguments the operations are called with
AddBatchSizes == {0, 1, 0 - 1}
DeleteKwargs ==
    {NoKwargs} \cup {[NoKwargs EXCEPT !.names = {"batch_size"}, !.batch_size = b] :
                        b \in {0, 1, 0 - 1}}
\* ttl left out, a positive timedelta, timedelta(0)
TtlKwargs == {NoKwargs} \cup {[NoKwargs EXCEPT !.names = {"ttl"}, !.ttl = t] : t \in {1, 0}}
MetaLens(n) == {0 - 1, n} \cup {m \in {n - 1} : m >= 0}
Ks == {1, 2}

\* the chunks upsert_multi is called with
AddChunks(n, batch_size) ==
    IF batch_size < 0 THEN 0
    ELSE IF batch_size = 0 THEN VSNumChunks(n, VS_DEFAULT_BATCH_SIZE)
    ELSE VSNumChunks(n, batch_size)

\* a well-formed outcome of the chunks of an add_texts call
IsAddOutcome(outcome, n, batch_size) ==
    /\ outcome.failAt = 0 => outcome = AddOk
    /\ outcome.failAt > 0 => outcome.kind \in AddFailKinds
    /\ outcome.stored \subseteq 1..(IF batch_size = 0 THEN n ELSE 1)

\* the chunks remove_multi is called with
DeleteChunks(n, batch_size) ==
    IF batch_size <= 0 THEN 0 ELSE VSNumChunks(n, batch_size)

\* a well-formed outcome of the chunks of a delete call
IsDeleteOutcome(outcome, ids) ==
    /\ outcome.raiseAt = 0 => outcome.kind = "none"
    /\ outcome.raiseAt > 0 => outcome.kind \in DeleteKinds
    /\ outcome.failed \subseteq SeqRange(ids)

VSFrame == UNCHANGED <<cacheVars, chatVars, semVars, ctorVars, callVars>>

\* (the ttl keyword varies in the calls whose chunks all succeed: a failing
\* call hands it to upsert_multi chunk by chunk as a succeeding one does)
DoAddTexts ==
    /\ vsCalls < MaxCalls
    /\ \E texts \in TextLists, ids_given \in BOOLEAN, batch_size \in AddBatchSizes :
          \E meta_len \in MetaLens(Len(texts)),
             ids \in (IF ids_given THEN {l \in IdLists : Len(l) = Len(texts)} ELSE {<<>>}),
             failAt \in 0..AddChunks(Len(texts), batch_size),
             kind \in AddFailKinds \cup {"ok"}, stored \in SUBSET (1..Len(texts)) :
              LET outcome == [failAt |-> failAt, kind |-> kind, stored |-> stored]
              IN  /\ IsAddOutcome(outcome, Len(texts), batch_size)
                  /\ \E kwargs \in (IF failAt = 0 THEN TtlKwargs ELSE {NoKwargs}) :
                        AddTexts(texts, meta_len, ids_given, ids, batch_size, kwargs,
                                 outcome)
    /\ VSFrame
DoDelete ==
    /\ vsCalls < MaxCalls
    /\ \E ids_given \in BOOLEAN, kwargs \in DeleteKwargs :
          \E ids \in (IF ids_given THEN IdLists ELSE {<<>>}) :
              \E raiseAt \in 0..DeleteChunks(Len(ids), KwBatchSize(kwargs)),
                 kind \in DeleteKinds \cup {"none"}, failed \in SUBSET SeqRange(ids) :
                  LET outcome == [raiseAt |-> raiseAt, kind |-> kind, failed |-> failed]
                  IN  /\ IsDeleteOutcome(outcome, ids)
                      /\ Delete(ids_given, ids, kwargs, outcome)
    /\ VSFrame
\* the same calls with every optional argument left at its default
DoAddTextsDefault ==
    /\ vsCalls < MaxCalls
    /\ \E texts \in TextLists, ids_given \in BOOLEAN :
          \E ids \in (IF ids_given THEN {l \in IdLists : Len(l) = Len(texts)} ELSE {<<>>}),
             failAt \in 0..AddChunks(Len(texts), 0),
             kind \in AddFailKinds \cup {"ok"}, stored \in SUBSET (1..Len(texts)) :
              LET outcome == [failAt |-> failAt, kind |-> kind, stored |-> stored]
              IN  /\ IsAddOutcome(outcome, Len(texts), 0)
                  /\ AddTexts(texts, 0 - 1, ids_given, ids, 0, NoKwargs, outcome)
    /\ VSFrame
DoDeleteDefault ==
    /\ vsCalls < MaxCalls
    /\ \E ids \in IdLists :
          \E raiseAt \in 0..DeleteChunks(Len(ids), VS_DEFAULT_BATCH_SIZE),
             kind \in DeleteKinds \cup {"none"}, failed \in SUBSET SeqRange(ids) :
              LET outcome == [raiseAt |-> raiseAt, kind |-> kind, failed |-> failed]
              IN  /\ IsDeleteOutcome(outcome, ids)
                  /\ Delete(TRUE, ids, NoKwargs, outcome)
    /\ VSFrame
\* (a search changes nothing it reads: a search right after a search would
\* find what the first could have found)
DoSearch ==
    /\ vsRes.op \notin SearchOps
    /\ \E query \in Texts, k \in Ks, backend \in SearchBackends :
          \E rows \in (IF backend = "error" THEN {<<>>}
                       ELSE KnnRows(index, embed_query(query), k)) :
              \E op \in SearchOps : Search(op, query, k, NoKwargs, rows, backend)
    /\ VSFrame
\* the fields keyword of a search: left out, [], ["metadata.page"], ["*"],
\* ["text"]
FieldsKwargs ==
    {NoKwargs} \cup
    {[NoKwargs EXCEPT !.names = {"fields"}, !.fields = f] :
        f \in {<<>>, <<_metadata_key \o <<".">> \o <<"page">>>>, <<Star>>,
               <<_default_text_key>>}}
DoSearchFields ==
    /\ vsRes.op \notin SearchOps
    /\ \E query \in Texts, k \in Ks, backend \in RowBackends, kwargs \in FieldsKwargs :
          \E rows \in (IF backend = "error" THEN {<<>>}
                       ELSE StreamOrders(index, embed_query(query), k)) :
              \E op \in SearchOps : Search(op, query, k, kwargs, rows, backend)
    /\ VSFrame
DoIndexRefresh ==
    /\ IndexRefresh
    /\ VSFrame
DoVSExpire ==
    /\ \E id \in AllIds : VSExpire(id)
    /\ VSFrame

\* what the collection holds when the vector store is constructed: nothing,
\* or what earlier add_texts calls have stored
StartCollections ==
    {add_texts(<<>>, 0, c[1], TRUE, [i \in DOMAIN c[1] |-> PageMetadata], TRUE, c[2], 0,
               NoKwargs, AddOk).docs :
        c \in {<<<<>>, <<>>>>,
               <<<<<<"a">>>>, <<<<"a">>>>>>,
               <<<<<<"a">>, <<"a", "b">>>>, <<<<"a">>, <<"b">>>>>>}}

\* collections whose documents differ in the metadata they carry
PageSourceMetadata == [k \in {<<"page">>, <<"source">>} |-> <<"1">>]
SearchCollections ==
    {add_texts(<<>>, 0, c[1], TRUE, c[3], TRUE, c[2], 0, NoKwargs, AddOk).docs :
        c \in {<<<<<<"a">>>>, <<<<"a">>>>, <<PageSourceMetadata>>>>,
               <<<<<<"a">>, <<"a", "b">>>>, <<<<"a">>, <<"b">>>>,
                 <<PageSourceMetadata, PageMetadata>>>>,
               <<<<<<"a", "b">>, <<"a">>>>, <<<<"a">>, <<"b">>>>,
                 <<PageSourceMetadata, NoMetadata>>>>}}

\* a constructed vector store over one of these, the index caught up
InitSearch ==
    /\ docs \in SearchCollections
    /\ index = docs
    /\ deleted = [id \in AllIds |-> "no"]
    /\ uuidCtr = 0
    /\ vsCalls = 0
    /\ vsRes = NoVsRes

\* a constructed vector store, the search index caught up with the collection
InitVS ==
    /\ docs \in StartCollections
    /\ index = docs
    /\ deleted = [id \in AllIds |-> "no"]
    /\ uuidCtr = 0
    /\ vsCalls = 0
    /\ vsRes = NoVsRes

\* writes and searches with default arguments
NextVS ==
    \/ DoAddTextsDefault
    \/ DoDeleteDefault
    \/ DoSearch
    \/ DoIndexRefresh

\* searches with every argument
NextSearch ==
    \/ DoSearchFields

\* writes with every argument, and expiry
NextVSWrite ==
    \/ DoAddTexts
    \/ DoDelete
    \/ DoVSExpire

\* ---------------------------------------------------- CouchbaseSemanticCache
\* The cache is a vector store (the add_texts and similarity_search_with_score
\* above) over its own collection and search index.
LLM == <<"llm_string">>
RETURN_VAL == <<"return_val">>

\* score_threshold as given at construction: set = FALSE is None
NoThreshold == [set |-> FALSE, val |-> 0]
Thresholds == {NoThreshold, [set |-> TRUE, val |-> 0], [set |-> TRUE, val |-> 2]}

\* Python's truth value of score_threshold
Truthy(threshold) == threshold.set /\ threshold.val # 0

\* the metadata update stores with a prompt
SemMetadata(llm_string, payload) ==
    [key \in {LLM, RETURN_VAL} |-> IF key = LLM THEN llm_string ELSE payload]

\* documents found in the collection that this cache did not write: one
\* without a return_val, and some whose payload is not what update writes
ForeignId == <<"f">>
SemForeignPayloads ==
    {p \in ForeignPayloads :
        \/ p.kind = "notjson"
        \/ p.kind = "list" /\ p.items[1].st \in {"ok", "badrevive"}}
SemForeignDocs ==
    {[text |-> <<"a">>, metadata |-> m, embedding |-> embed_query(<<"a">>),
      expiry |-> FALSE] :
        m \in {SemMetadata(<<"c">>, p) : p \in SemForeignPayloads}
              \cup {[key \in {LLM} |-> <<"c">>]}}

\* updates a semantic cache takes in a behaviour
MaxSemUpdates == 1

NoSemRes == [op |-> "none", prompt |-> <<>>, llm |-> <<>>, backend |-> "ok",
             found |-> FALSE, score |-> 0, src_id |-> <<>>, src_llm |-> <<>>,
             hit |-> FALSE, val |-> <<>>, raised |-> None]

\* CouchbaseSemanticCache.lookup over the index idx: found = the search
\* returned a match (its id, score and stored llm_string are recorded),
\* hit = a list is returned, raised = the exception that escapes
SemLookupResult(idx, threshold, prompt, llm_string, rows, backend) ==
    LET pre_filter == llm_string
        kwargs == [NoKwargs EXCEPT !.names = {"pre_filter"}, !.pre_filter = pre_filter]
        search_results == similarity_search_with_score(idx, prompt, 1, kwargs, rows, backend)
        miss == [raised |-> None, found |-> FALSE, score |-> 0, src_id |-> <<>>,
                 src_llm |-> <<>>, hit |-> FALSE, val |-> <<>>]
    IN  IF search_results.raised # None
        THEN [miss EXCEPT !.raised = search_results.raised]
        ELSE IF search_results.docs_with_score = <<>> THEN miss
        ELSE LET selected_doc == search_results.docs_with_score[1].doc
                 score == search_results.docs_with_score[1].score
                 match == [miss EXCEPT !.found = TRUE, !.score = score,
                                       !.src_id = selected_doc.id,
                                       !.src_llm = IF LLM \in DOMAIN selected_doc.metadata
                                                   THEN selected_doc.metadata[LLM]
                                                   ELSE <<>>]
             IN  IF Truthy(threshold) /\ score < threshold.val THEN match
                 ELSE IF RETURN_VAL \notin DOMAIN selected_doc.metadata
                 THEN [match EXCEPT !.raised = "KeyError"]
                 ELSE LET g == _loads_generations(selected_doc.metadata[RETURN_VAL])
                      IN  [match EXCEPT !.raised = g.exc, !.hit = g.hit, !.val = g.val]

SemLookup(prompt, llm_string, rows, backend) ==
    LET r == SemLookupResult(semIndex, score_threshold, prompt, llm_string, rows, backend)
    IN  /\ semRes' = [op |-> "lookup", prompt |-> prompt, llm |-> llm_string,
                      backend |-> backend, found |-> r.found, score |-> r.score,
                      src_id |-> r.src_id, src_llm |-> r.src_llm, hit |-> r.hit,
                      val |-> r.val, raised |-> r.raised]
        /\ UNCHANGED <<semDocs, semIndex, semCtr, score_threshold, semTtl>>

\* CouchbaseSemanticCache.update: the whole call, _dumps_generations
\* included, runs inside try/except Exception
SemUpdate(prompt, llm_string, rv, outcome) ==
    LET kwargs == [NoKwargs EXCEPT !.names = {"ttl"}, !.ttl = semTtl]
        metadatas == <<SemMetadata(llm_string, _dumps_generations(rv.val))>>
        r == add_texts(semDocs, semCtr, <<prompt>>, TRUE, metadatas, FALSE, <<>>, 0,
                       kwargs, outcome)
        res == [NoSemRes EXCEPT !.op = "update"]
    IN  /\ semCtr < MaxSemUpdates
        /\ IF ~rv.ok
           THEN /\ semRes' = [res EXCEPT !.backend = "unused"]
                /\ UNCHANGED <<semDocs, semCtr>>
           ELSE /\ semDocs' = r.docs
                /\ semCtr' = semCtr + 1
                /\ semRes' = [res EXCEPT !.backend = outcome.kind]
        /\ UNCHANGED <<semIndex, score_threshold, semTtl>>

\* CouchbaseSemanticCache.clear: DELETE FROM `collection`, failures logged
SemClear(backend) ==
    /\ semRes' = [NoSemRes EXCEPT !.op = "clear", !.backend = backend]
    /\ semDocs' = IF backend = "ok" THEN <<>> ELSE semDocs
    /\ UNCHANGED <<semIndex, semCtr, score_threshold, semTtl>>

\* the search service catches up with the collection
SemIndexRefresh ==
    /\ semIndex # semDocs
    /\ semIndex' = semDocs
    /\ semRes' = [NoSemRes EXCEPT !.op = "refresh"]
    /\ UNCHANGED <<semDocs, semCtr, score_threshold, semTtl>>

\* the server drops a document whose expiry has passed
SemExpire(id) ==
    /\ id \in DOMAIN semDocs
    /\ semDocs[id].expiry
    /\ semDocs' = [x \in DOMAIN semDocs \ {id} |-> semDocs[x]]
    /\ semRes' = [NoSemRes EXCEPT !.op = "expire"]
    /\ UNCHANGED <<semIndex, semCtr, score_threshold, semTtl>>

\* another writer stores a document in the collection
SemForeignWrite(doc) ==
    /\ ForeignId \notin DOMAIN semDocs
    /\ semDocs' = [x \in DOMAIN semDocs \cup {ForeignId} |->
                      IF x = ForeignId THEN doc ELSE semDocs[x]]
    /\ semRes' = [NoSemRes EXCEPT !.op = "foreign"]
    /\ UNCHANGED <<semIndex, semCtr, score_threshold, semTtl>>

SemIds == {uuid4(i) : i \in 1..MaxSemUpdates} \cup {ForeignId}

SemFrame == UNCHANGED <<cacheVars, chatVars, vsVars, ctorVars, callVars>>

\* (a lookup changes nothing it reads: a lookup right after a lookup would
\* find what the first could have found)
DoSemLookup ==
    /\ semRes.op # "lookup"
    /\ \E pr \in Pairs, backend \in SearchBackends :
          \E rows \in (IF backend = "error" THEN {<<>>}
                       ELSE KnnRows(semIndex, embed_query(pr[1]), 1)) :
              SemLookup(pr[1], pr[2], rows, backend)
    /\ SemFrame
DoSemUpdate ==
    /\ semCtr < MaxSemUpdates
    /\ \E pr \in Pairs, rv \in ReturnVals, failAt \in 0..1,
          kind \in AddFailKinds \cup {"ok"}, stored \in SUBSET {1} :
          LET outcome == [failAt |-> failAt, kind |-> kind, stored |-> stored]
          IN  /\ IsAddOutcome(outcome, 1, 0)
              /\ SemUpdate(pr[1], pr[2], rv, outcome)
    /\ SemFrame
DoSemClear ==
    /\ \E backend \in Backends : SemClear(backend)
    /\ SemFrame
DoSemIndexRefresh ==
    /\ SemIndexRefresh
    /\ SemFrame
DoSemExpire ==
    /\ \E id \in SemIds : SemExpire(id)
    /\ SemFrame
DoSemForeignWrite ==
    /\ \E doc \in SemForeignDocs : SemForeignWrite(doc)
    /\ SemFrame

\* a constructed semantic cache over an empty collection
InitSem ==
    /\ semDocs = <<>>
    /\ semIndex = <<>>
    /\ semCtr = 0
    /\ score_threshold \in Thresholds
    /\ semTtl \in {0, 1}
    /\ semRes = NoSemRes

NextSem ==
    \/ DoSemLookup
    \/ DoSemUpdate
    \/ DoSemClear
    \/ DoSemIndexRefresh
    \/ DoSemExpire
    \/ DoSemForeignWrite

\* ---- the two caches side by side
\* In a behaviour one of the two caches is in use: they are separate objects
\* over separate collections, and the other stays as constructed.
SemUnused ==
    /\ semRes.op = "none" /\ semDocs = <<>> /\ semIndex = <<>>
    /\ score_threshold = NoThreshold /\ semTtl = 0
CacheUnused == cacheRes.op = "none" /\ kv = <<>> /\ cacheTtl = 0

\* the values the updates of this section store: the empty list, one
\* generation, a value the codec cannot serialise
ShortVals == {rv \in ReturnVals : Len(rv.val) <= 1}
DoCacheUpdateShort ==
    /\ \E pr \in Pairs, rv \in ShortVals, b \in Backends :
          CacheUpdate(pr[1], pr[2], rv, b)
    /\ CacheFrame
DoSemUpdateShort ==
    /\ semCtr < MaxSemUpdates
    /\ \E pr \in Pairs, rv \in ShortVals, failAt \in 0..1,
          kind \in AddFailKinds \cup {"ok"}, stored \in SUBSET {1} :
          LET outcome == [failAt |-> failAt, kind |-> kind, stored |-> stored]
          IN  /\ IsAddOutcome(outcome, 1, 0)
              /\ SemUpdate(pr[1], pr[2], rv, outcome)
    /\ SemFrame

KeyedLookup == SemUnused /\ DoCacheLookup
KeyedUpdate == SemUnused /\ DoCacheUpdateShort
KeyedClear == SemUnused /\ DoCacheClear
SemanticLookup == CacheUnused /\ DoSemLookup
SemanticUpdate == CacheUnused /\ DoSemUpdateShort
SemanticClear == CacheUnused /\ DoSemClear
SemanticIndexRefresh == CacheUnused /\ DoSemIndexRefresh

NextClear ==
    \/ KeyedLookup
    \/ KeyedUpdate
    \/ KeyedClear
    \/ SemanticLookup
    \/ SemanticUpdate
    \/ SemanticClear
    \/ SemanticIndexRefresh

\* ---- the operations of every component
\* As above, one component is in use in a behaviour.
ChatUnused == chatRes.op = "none" /\ records = <<>> /\ chatTtl = 0
VSUnused == vsRes.op = "none" /\ vsCalls = 0 /\ docs = <<>>

OnlyCache == SemUnused /\ ChatUnused /\ VSUnused
OnlySem == CacheUnused /\ ChatUnused /\ VSUnused
OnlyChat == CacheUnused /\ SemUnused /\ VSUnused
OnlyVS == CacheUnused /\ SemUnused /\ ChatUnused

CacheOpLookup == OnlyCache /\ DoCacheLookup
CacheOpUpdate == OnlyCache /\ DoCacheUpdateShort
CacheOpClear == OnlyCache /\ DoCacheClear
SemOpLookup == OnlySem /\ DoSemLookup
SemOpUpdate == OnlySem /\ DoSemUpdateShort
SemOpClear == OnlySem /\ DoSemClear
\* the history is the one of a single session
OpsSession == "s1"
ChatOpAddMessage ==
    /\ OnlyChat
    /\ \E time \in Times, b \in Backends : AddMessage(OpsSession, time, b)
    /\ ChatFrame
ChatOpAddMessages ==
    /\ OnlyChat
    /\ \E n \in 0..(MaxAdded - nextKey + 1) :
          \E outcomes \in OutcomeSeqs(n, DEFAULT_BATCH_SIZE), times \in [1..n -> Times] :
              AddMessages(OpsSession, n, times, outcomes)
    /\ ChatFrame
ChatOpMessages ==
    /\ OnlyChat
    /\ chatRes.op \notin {"messages", "set_messages"}
    /\ \E order \in OrderedRows(records, OpsSession) :
          \E failAt \in 0..(Len(order) + 1) : ReadMessages(OpsSession, order, failAt)
    /\ ChatFrame
ChatOpSetMessages ==
    /\ OnlyChat
    /\ chatRes.op \notin {"messages", "set_messages"}
    /\ SetMessages(OpsSession)
    /\ ChatFrame
ChatOpClear ==
    /\ OnlyChat
    /\ \E b \in Backends : ChatClear(OpsSession, b)
    /\ ChatFrame
VSOpAddTexts == OnlyVS /\ DoAddTextsDefault
VSOpDelete == OnlyVS /\ DoDeleteDefault
\* a search for the nearest document
VSOpSearch ==
    /\ OnlyVS
    /\ vsRes.op \notin SearchOps
    /\ \E query \in Texts, backend \in SearchBackends :
          \E rows \in (IF backend = "error" THEN {<<>>}
                       ELSE KnnRows(index, embed_query(query), 1)) :
              \E op \in SearchOps : Search(op, query, 1, NoKwargs, rows, backend)
    /\ VSFrame

NextOps ==
    \/ CacheOpLookup
    \/ CacheOpUpdate
    \/ CacheOpClear
    \/ SemOpLookup
    \/ SemOpUpdate
    \/ SemOpClear
    \/ ChatOpAddMessage
    \/ ChatOpAddMessages
    \/ ChatOpMessages
    \/ ChatOpSetMessages
    \/ ChatOpClear
    \/ VSOpAddTexts
    \/ VSOpDelete
    \/ VSOpSearch

\* ------------------------------------------------------------- constructors
Components == {"CouchbaseCache", "CouchbaseSemanticCache",
               "CouchbaseChatMessageHistory", "CouchbaseVectorStore"}

\* a name argument is the empty string, names nothing on the cluster, or
\* names something that exists
NameStates == {"empty", "missing", "exists"}
\* the ttl argument: None, a positive timedelta, a timedelta that is not
\* positive, a value that is no timedelta
TtlArgs == {"none", "valid", "nonpositive", "nottimedelta"}

\* what a constructor is called with, and what it finds on the cluster.
\* The caches and the history take neither embedding nor index_name, the
\* vector store takes no ttl.
CtorArgs ==
    {a \in [component : Components, cluster_ok : BOOLEAN, embedding_ok : BOOLEAN,
            bucket_name : NameStates, scope_name : NameStates,
            collection_name : NameStates, index_name : NameStates,
            connect_ok : BOOLEAN, ttl : TtlArgs] :
        /\ a.component \in {"CouchbaseCache", "CouchbaseChatMessageHistory"}
              => (a.embedding_ok /\ a.index_name = "exists")
        /\ a.component = "CouchbaseVectorStore" => a.ttl = "none"}

DefaultCtorArgs ==
    [component |-> "CouchbaseCache", cluster_ok |-> TRUE, embedding_ok |-> TRUE,
     bucket_name |-> "exists", scope_name |-> "exists", collection_name |-> "exists",
     index_name |-> "exists", connect_ok |-> TRUE, ttl |-> "none"]

\* the first check of a list that reports an error, None when none does
RECURSIVE FirstError(_)
FirstError(checks) ==
    IF checks = <<>> THEN None
    ELSE IF Head(checks) # None THEN Head(checks)
    ELSE FirstError(Tail(checks))

\* utils.check_bucket_exists and the ValueError naming the bucket
check_bucket_exists(a) == IF a.bucket_name = "exists" THEN None ELSE "bucket"

\* cluster.bucket(...).scope(...).collection(...) inside try/except
Connect(a) == IF a.connect_ok THEN None ELSE "connect"

\* utils.check_scope_and_collection_exists
check_scope_and_collection_exists(a) ==
    IF a.scope_name # "exists" THEN "scope"
    ELSE IF a.collection_name # "exists" THEN "collection"
    ELSE None

\* utils.validate_ttl behind `if ttl is not None`
validate_ttl(a) == IF a.ttl \in {"nonpositive", "nottimedelta"} THEN "ttl" ELSE None

IsCluster(a) == IF a.cluster_ok THEN None ELSE "cluster"

\* CouchbaseVectorStore._check_index_exists
_check_index_exists(a) == IF a.index_name = "exists" THEN None ELSE "index"

\* a constructor that checks the bucket last
BucketCheckedLast(a) ==
    FirstError(<<IsCluster(a), Connect(a), check_scope_and_collection_exists(a),
                 validate_ttl(a), check_bucket_exists(a)>>)

\* CouchbaseCache.__init__ : the error it raises, None when it returns
CacheInit(a) ==
    FirstError(<<IsCluster(a), check_bucket_exists(a), Connect(a),
                 check_scope_and_collection_exists(a), validate_ttl(a)>>)

\* CouchbaseChatMessageHistory.__init__ (a failure of the index creation is
\* logged)
ChatInit(a) ==
    FirstError(<<IsCluster(a), check_bucket_exists(a), Connect(a),
                 check_scope_and_collection_exists(a), validate_ttl(a)>>)

\* a constructor that looks for the index before it looks for the bucket
VectorStoreInitIndexFirst(a) ==
    FirstError(<<IsCluster(a),
                 IF a.embedding_ok THEN None ELSE "embedding",
                 IF a.bucket_name = "empty" THEN "bucket_name" ELSE None,
                 IF a.scope_name = "empty" THEN "scope_name" ELSE None,
                 IF a.collection_name = "empty" THEN "collection_name" ELSE None,
                 IF a.index_name = "empty" THEN "index_name" ELSE None,
                 _check_index_exists(a), check_bucket_exists(a), Connect(a),
                 check_scope_and_collection_exists(a)>>)

\* CouchbaseVectorStore.__init__
VectorStoreInit(a) ==
    FirstError(<<IsCluster(a),
                 IF a.embedding_ok THEN None ELSE "embedding",
                 IF a.bucket_name = "empty" THEN "bucket_name" ELSE None,
                 IF a.scope_name = "empty" THEN "scope_name" ELSE None,
                 IF a.collection_name = "empty" THEN "collection_name" ELSE None,
                 IF a.index_name = "empty" THEN "index_name" ELSE None,
                 check_bucket_exists(a), Connect(a),
                 check_scope_and_collection_exists(a), _check_index_exists(a)>>)

\* CouchbaseSemanticCache.__init__ : its own checks, then the vector store's
SemanticCacheInit(a) ==
    FirstError(<<IsCluster(a), check_bucket_exists(a), Connect(a),
                 check_scope_and_collection_exists(a), validate_ttl(a),
                 VectorStoreInit(a)>>)

Construct ==
    /\ ctorRes.component = "none"
    /\ ctorRes' = [component |-> ctorArgs.component,
                   error |-> CASE ctorArgs.component = "CouchbaseCache" ->
                                      CacheInit(ctorArgs)
                               [] ctorArgs.component = "CouchbaseSemanticCache" ->
                                      SemanticCacheInit(ctorArgs)
                               [] ctorArgs.component = "CouchbaseChatMessageHistory" ->
                                      ChatInit(ctorArgs)
                               [] OTHER -> VectorStoreInit(ctorArgs)]
    /\ UNCHANGED ctorArgs

CtorFrame == UNCHANGED <<cacheVars, chatVars, vsVars, semVars, callVars>>

DoConstruct ==
    /\ Construct
    /\ CtorFrame

NotConstructed == [component |-> "none", error |-> None]

InitCtor ==
    /\ ctorArgs \in CtorArgs
    /\ ctorRes = NotConstructed

NextCtor == DoConstruct

\* ---------------------------------------------------------- helper functions
\* what a helper is called with: its name and its arguments
NoCall == [fn |-> "none"]
NotCalled == [done |-> FALSE, error |-> None]

CallFrame == UNCHANGED <<cacheVars, chatVars, vsVars, semVars, ctorVars>>

\* ---- scope and collection validation
ScopeNames == {"s1", "s2"}
CollectionNames == {"c1", "c2"}

\* bucket.collections().get_all_scopes(): scopes with unique names, each
\* with the names of its collections
ScopeListings ==
    {l \in SeqsUpTo([name : ScopeNames, collections : SUBSET CollectionNames], 2) :
        \A i, j \in DOMAIN l : i # j => l[i].name # l[j].name}

\* a check that accepts the collection in whatever scope it is found
CollectionInAnyScope(scopes, scope_name, collection_name) ==
    IF \A i \in DOMAIN scopes : scopes[i].name # scope_name THEN "scope"
    ELSE IF \E i \in DOMAIN scopes : collection_name \in scopes[i].collections THEN None
    ELSE "collection"

\* utils.check_scope_and_collection_exists over a scope listing: the error it
\* raises ("scope", "collection"), None when it returns True
RECURSIVE CheckScopeAndCollection(_, _, _)
CheckScopeAndCollection(scopes, scope_name, collection_name) ==
    IF scopes = <<>> THEN "scope"
    ELSE IF Head(scopes).name = scope_name
         THEN IF collection_name \in Head(scopes).collections THEN None ELSE "collection"
    ELSE CheckScopeAndCollection(Tail(scopes), scope_name, collection_name)

\* the dict CouchbaseVectorStore._check_scope_and_collection_exists builds
RECURSIVE scope_collection_map(_)
scope_collection_map(scopes) ==
    IF scopes = <<>> THEN [n \in {} |-> {}]
    ELSE LET m == scope_collection_map(SubSeq(scopes, 1, Len(scopes) - 1))
             last == scopes[Len(scopes)]
         IN  [n \in DOMAIN m \cup {last.name} |->
                 IF n = last.name THEN last.collections ELSE m[n]]

\* CouchbaseVectorStore._check_scope_and_collection_exists
_check_scope_and_collection_exists(scopes, scope_name, collection_name) ==
    LET m == scope_collection_map(scopes)
    IN  IF scope_name \notin DOMAIN m THEN "scope"
        ELSE IF collection_name \notin m[scope_name] THEN "collection"
        ELSE None

ScopeCheckCalls ==
    [fn : {"check_scope_and_collection_exists", "_check_scope_and_collection_exists"},
     scopes : ScopeListings, scope_name : ScopeNames, collection_name : CollectionNames]

CheckScope ==
    /\ ~callRes.done
    /\ callArgs.fn \in {"check_scope_and_collection_exists",
                        "_check_scope_and_collection_exists"}
    /\ callRes' = [done |-> TRUE,
                   error |-> IF callArgs.fn = "check_scope_and_collection_exists"
                             THEN CheckScopeAndCollection(callArgs.scopes, callArgs.scope_name,
                                                          callArgs.collection_name)
                             ELSE _check_scope_and_collection_exists(
                                      callArgs.scopes, callArgs.scope_name,
                                      callArgs.collection_name)]
    /\ UNCHANGED callArgs

DoCheckScope ==
    /\ CheckScope
    /\ CallFrame

InitScopeCheck ==
    /\ callArgs \in ScopeCheckCalls
    /\ callRes = NotCalled

NextScopeCheck == DoCheckScope

\* ---- rows into documents
\* the names of the fields a row may carry: the text, metadata.page,
\* metadata.source, a metadata value nested under keys a and metadata, and a
\* field outside the metadata
NestedField == _metadata_key \o <<".", "a", ".">> \o _metadata_key \o <<".", "b">>
FieldNames ==
    {_default_text_key,
     _metadata_key \o <<".", "page">>,
     _metadata_key \o <<".", "source">>,
     NestedField,
     <<"author">>}
FieldValues == {<<"1">>, <<"2">>}
FieldMaps == UNION {[names -> FieldValues] : names \in SUBSET FieldNames}
FormatCalls == {[fn |-> "_format_metadata", row_fields |-> m] : m \in FieldMaps \ {<<>>}}

\* one pass of the row loop over a row that has fields
FormatRow ==
    /\ ~callRes.done
    /\ callArgs.fn = "_format_metadata"
    /\ callRes' = [done |-> TRUE, error |-> None,
                   doc |-> RowDocument(<<"a">>, callArgs.row_fields)]
    /\ UNCHANGED callArgs

DoFormatRow ==
    /\ FormatRow
    /\ CallFrame

InitFormat ==
    /\ callArgs \in FormatCalls
    /\ callRes = NotCalled

NextFormat == DoFormatRow

\* ---- concurrent callers of one chat history
\* Callers add messages to one session at the same time.  A call is a run of
\* steps that other callers' steps may come between: per message a key
\* (uuid.uuid4().hex) and a timestamp, then one insert (add_message) or one
\* insert_multi per chunk (add_messages).
Callers == {"c1", "c2"}
ConcSession == "s1"
ConcCalls ==
    {[kind |-> "add_message", n |-> 1]}
    \cup {[kind |-> "add_messages", n |-> n] : n \in 0..(DEFAULT_BATCH_SIZE + 1)}

NewProc == [pc |-> "keys", keys |-> <<>>, ts |-> <<>>, sent |-> 0, failed |-> FALSE]

\* a key taken from the position of the message in its own call
KeyFromPosition(ctr, position) == position

\* uuid.uuid4().hex: a key no earlier call of it has returned
FreshKey(ctr, position) == ctr

ConcChunkSize(call) == IF call.kind = "add_message" THEN 1 ELSE DEFAULT_BATCH_SIZE
ConcChunks(call) == NumChunks(call.n, ConcChunkSize(call))

ConcPayload(c, i) == <<c, i>>

\* caller c builds the key and the timestamp of its next message
ConcPrepare(c, time) ==
    LET p == callRes.procs[c]
        call == callArgs.calls[c]
    IN  /\ callArgs.fn = "concurrent"
        /\ p.pc = "keys"
        /\ Len(p.keys) < call.n
        /\ callRes' = [callRes EXCEPT !.procs[c] =
                          [p EXCEPT !.keys = Append(p.keys, FreshKey(nextKey, Len(p.keys) + 1)),
                                    !.ts = Append(p.ts, time)]]
        /\ nextKey' = nextKey + 1
        /\ clock' = time
        /\ clockBack' = (clockBack \/ time < clock)
        /\ UNCHANGED <<records, chatTtl, chatRes, callArgs>>

\* caller c sends its next chunk: insert / insert_multi stores a document
\* unless its key exists (insert semantics); a raised exception is logged
\* and ends the call
ConcInsert(c, backend) ==
    LET p == callRes.procs[c]
        call == callArgs.calls[c]
        size == ConcChunkSize(call)
        lo == p.sent * size + 1
        hi == Min(lo + size - 1, call.n)
        fresh == {i \in lo..hi : p.keys[i] \notin DOMAIN records}
        doc(i) == [message |-> message_to_dict(ConcPayload(c, i)),
                   session_id |-> ConcSession, ts |-> p.ts[i], expiry |-> (chatTtl # 0)]
        new == {p.keys[i] : i \in fresh}
        position(k) == CHOOSE i \in fresh : p.keys[i] = k
    IN  /\ callArgs.fn = "concurrent"
        /\ p.pc = "keys"
        /\ Len(p.keys) = call.n
        /\ p.sent < ConcChunks(call)
        /\ IF backend = "ok"
           THEN /\ records' = [k \in DOMAIN records \cup new |->
                                  IF k \in new THEN doc(position(k)) ELSE records[k]]
                /\ callRes' = [callRes EXCEPT !.procs[c] = [p EXCEPT !.sent = p.sent + 1]]
           ELSE /\ records' = records
                /\ callRes' = [callRes EXCEPT !.procs[c] =
                                  [p EXCEPT !.failed = TRUE, !.pc = "done"]]
        /\ UNCHANGED <<clock, clockBack, nextKey, chatTtl, chatRes, callArgs>>

\* the call of caller c returns
ConcReturn(c) ==
    LET p == callRes.procs[c]
        call == callArgs.calls[c]
    IN  /\ callArgs.fn = "concurrent"
        /\ p.pc = "keys"
        /\ Len(p.keys) = call.n
        /\ p.sent = ConcChunks(call)
        /\ callRes' = [callRes EXCEPT !.procs[c] = [p EXCEPT !.pc = "done"]]
        /\ UNCHANGED <<records, clock, clockBack, nextKey, chatTtl, chatRes, callArgs>>

ConcFrame == UNCHANGED <<cacheVars, vsVars, semVars, ctorVars>>

DoConcPrepare ==
    /\ \E c \in Callers, time \in Times : time >= clock /\ ConcPrepare(c, time)
    /\ ConcFrame
DoConcInsert ==
    /\ \E c \in Callers, b \in Backends : ConcInsert(c, b)
    /\ ConcFrame
DoConcReturn ==
    /\ \E c \in Callers : ConcReturn(c)
    /\ ConcFrame

\* every caller is about to make one call
InitConc ==
    /\ callArgs \in {[fn |-> "concurrent", calls |-> calls] : calls \in [Callers -> ConcCalls]}
    /\ callRes = [done |-> FALSE, error |-> None, procs |-> [c \in Callers |-> NewProc]]

NextConc ==
    \/ DoConcPrepare
    \/ DoConcInsert
    \/ DoConcReturn

\* no helper is called
InitCall ==
    /\ callArgs = NoCall
    /\ callRes = NotCalled

\* ------------------------------------------------------------ specifications
Init == InitCache /\ InitChat /\ InitVS /\ InitSem /\ InitCtor /\ InitCall

Next ==
    \/ NextCache \/ NextChat \/ NextVS \/ NextVSWrite \/ NextSearch \/ NextSem
    \/ NextCtor \/ NextScopeCheck \/ NextFormat \/ NextClear \/ NextConc
    \/ NextOps

Spec == Init /\ [][Next]_vars

\* each component on its own, the others freshly constructed and idle
IdleCache == InitCache /\ cacheTtl = 0
IdleChat == InitChat /\ chatTtl = 0
IdleVS == InitVS /\ docs = <<>>
IdleSem == InitSem /\ score_threshold = NoThreshold /\ semTtl = 0
IdleCtor == InitCtor /\ ctorArgs = DefaultCtorArgs
IdleCall == InitCall

InitCacheOnly == InitCache /\ IdleChat /\ IdleVS /\ IdleSem /\ IdleCtor /\ IdleCall
SpecCache == InitCacheOnly /\ [][NextCache]_vars

InitChatOnly == InitChat /\ IdleCache /\ IdleVS /\ IdleSem /\ IdleCtor /\ IdleCall
SpecChat == InitChatOnly /\ [][NextChat]_vars

InitVSOnly == InitVS /\ IdleCache /\ IdleChat /\ IdleSem /\ IdleCtor /\ IdleCall
SpecVS == InitVSOnly /\ [][NextVS]_vars
SpecVSWrite == InitVSOnly /\ [][NextVSWrite]_vars

InitSemOnly == InitSem /\ IdleCache /\ IdleChat /\ IdleVS /\ IdleCtor /\ IdleCall
SpecSem == InitSemOnly /\ [][NextSem]_vars

InitCtorOnly == InitCtor /\ IdleCache /\ IdleChat /\ IdleVS /\ IdleSem /\ IdleCall
SpecCtor == InitCtorOnly /\ [][NextCtor]_vars

InitSearchOnly ==
    InitSearch /\ IdleCache /\ IdleChat /\ IdleSem /\ IdleCtor /\ IdleCall
SpecSearch == InitSearchOnly /\ [][NextSearch]_vars

InitFormatOnly ==
    InitFormat /\ IdleCache /\ IdleChat /\ IdleVS /\ IdleSem /\ IdleCtor
SpecFormat == InitFormatOnly /\ [][NextFormat]_vars

\* either cache constructed with its options, the other one plain
InitClearOnly ==
    /\ \/ InitCache /\ IdleSem
       \/ IdleCache /\ InitSem
    /\ IdleChat /\ IdleVS /\ IdleCtor /\ IdleCall
SpecClear == InitClearOnly /\ [][NextClear]_vars

InitConcOnly ==
    InitConc /\ InitChat /\ IdleCache /\ IdleVS /\ IdleSem /\ IdleCtor
SpecConc == InitConcOnly /\ [][NextConc]_vars

\* one component constructed with its options, the others plain
InitOpsOnly ==
    /\ \/ InitCache /\ IdleChat /\ IdleVS /\ IdleSem
       \/ IdleCache /\ InitChat /\ IdleVS /\ IdleSem
       \/ IdleCache /\ IdleChat /\ InitVS /\ IdleSem
       \/ IdleCache /\ IdleChat /\ IdleVS /\ InitSem
    /\ IdleCtor /\ IdleCall
SpecOps == InitOpsOnly /\ [][NextOps]_vars

InitScopeCheckOnly ==
    InitScopeCheck /\ IdleCache /\ IdleChat /\ IdleVS /\ IdleSem /\ IdleCtor
SpecScopeCheck == InitScopeCheckOnly /\ [][NextScopeCheck]_vars

\* --------------------------------------------------- claims: CouchbaseCache

\* C1: after a successful update(prompt, llm_string, g), with no later update
\* of that pair, no clear and no expiry, a lookup of the pair whose backend
\* read succeeds returns g (the last value written for the pair).
C1_RoundTrip ==
    (/\ cacheRes.op = "lookup"
     /\ cacheRes.backend = "ok"
     /\ written[<<cacheRes.prompt, cacheRes.llm>>].set)
    => (/\ cacheRes.hit
        /\ cacheRes.val = written[<<cacheRes.prompt, cacheRes.llm>>].val)

\* C5: CouchbaseCache.lookup never raises, whatever the backend read does
\* and whatever payload is stored: it returns the list decoded from the
\* stored payload, or None.
C5_LookupNeverRaises ==
    cacheRes.op = "lookup" =>
        /\ cacheRes.raised = None
        /\ LET r == LookupValue(kv, cacheRes.prompt, cacheRes.llm, cacheRes.backend)
           IN  IF r.exc = None /\ r.hit
               THEN cacheRes.hit /\ cacheRes.val = r.val
               ELSE ~cacheRes.hit

\* C5 witness: a lookup has read a stored payload on which
\* _loads_generations raises an exception it does not handle.
C5_Witness ==
    /\ cacheRes.op = "lookup"
    /\ cacheRes.backend = "ok"
    /\ LookupValue(kv, cacheRes.prompt, cacheRes.llm, "ok").exc = "ValueError"

\* C7: CouchbaseCache.update never raises to the caller, and an update that
\* failed leaves the stored entries unchanged.
C7_UpdateNeverRaises ==
    [][cacheRes'.op = "update" =>
          /\ cacheRes'.raised = None
          /\ (cacheRes'.backend # "ok" => kv' = kv)]_vars


\* ---------------------------------------------------- claims: chat history
SessionCount(recs, session) == Cardinality(SessionKeys(recs, session))

\* the rows of a read are all the records of its session, once each, in
\* non-decreasing timestamp order
FullOrderedRead(recs, res) ==
    /\ Len(res.rows) = SessionCount(recs, res.session)
    /\ \A i \in DOMAIN res.rows : res.rows[i] \in SessionKeys(recs, res.session)
    /\ \A i, j \in DOMAIN res.rows :
          i < j => /\ res.rows[i] # res.rows[j]
                   /\ recs[res.rows[i]].ts <= recs[res.rows[j]].ts

IsSearch(res) == res.op \in SearchOps
ResultIds(res) == {res.docs[i].id : i \in DOMAIN res.docs}

Distinct(seq) == \A i, j \in DOMAIN seq : i # j => seq[i] # seq[j]

\* what add_texts promises of a call: one id per text, in order, the caller's
\* ids or fresh ones, each naming the document of its text
OneIdPerText(res, before, after) ==
    /\ res.raised = None
    /\ Len(res.ret) = Len(res.texts)
    /\ res.ids_given => res.ret = res.ids
    /\ ~res.ids_given =>
          /\ Distinct(res.ret)
          /\ \A i \in DOMAIN res.ret : res.ret[i] \notin DOMAIN before
    /\ \A i \in DOMAIN res.texts :
          /\ i \in DOMAIN res.ret
          /\ res.ret[i] \in DOMAIN after
          /\ after[res.ret[i]].text = res.texts[i]

AddSucceeded(res) ==
    /\ res.op = "add_texts"
    /\ res.all_ok
    /\ res.ids_given => Len(res.ids) = Len(res.texts)

\* C4 (as stated): an add_texts call whose every batch is stored returns one id
\* per text, in order (the caller's ids, or fresh ones), and each returned id
\* names the document holding the text of its position.
C4_Original ==
    [][AddSucceeded(vsRes') => OneIdPerText(vsRes', docs, docs')]_vars

\* C4 (amended): the same, for calls whose batch_size is absent or positive,
\* whose ids (when given) are pairwise distinct and whose metadatas (when
\* given) has one entry per text.
C4_Amended ==
    [][(/\ AddSucceeded(vsRes')
        /\ vsRes'.batch_size >= 0
        /\ vsRes'.ids_given => Distinct(vsRes'.ids)
        /\ vsRes'.meta_len \in {0 - 1, Len(vsRes'.texts)})
       => OneIdPerText(vsRes', docs, docs')]_vars

\* two texts stored under the caller's ids in two batches of one
C4_Witness ==
    /\ vsRes.op = "add_texts"
    /\ vsRes.all_ok
    /\ vsRes.raised = None
    /\ vsRes.ids_given
    /\ Len(vsRes.texts) = 2
    /\ vsRes.batch_size = 1
    /\ vsRes.meta_len = 2
    /\ vsRes.ret = vsRes.ids
    /\ Distinct(vsRes.ids)


\* --------------------------------------------------- claims: semantic cache
\* C6: CouchbaseSemanticCache.lookup never raises
C6_LookupNeverRaises ==
    semRes.op = "lookup" => semRes.raised = None

\* C8: a lookup never returns generations stored by an update with another
\* model identifier
C8_OnlyOwnModel ==
    (semRes.op = "lookup" /\ semRes.hit /\ semRes.src_id # ForeignId)
        => semRes.src_llm = semRes.llm

\* C9: lookup returns absent when the search yields no match, and whenever a
\* score threshold was set and the best match scores below it
C9_ThresholdHonoured ==
    (semRes.op = "lookup" /\ semRes.raised = None) =>
        /\ ~semRes.found => ~semRes.hit
        /\ (score_threshold.set /\ semRes.found /\ semRes.score < score_threshold.val)
              => ~semRes.hit

\* ------------------------------------------------------ claims: constructors
Constructed == ctorRes.component # "none"

\* C10 (as stated): a constructor called with the name of a bucket that does
\* not exist reports the missing bucket, whatever its other arguments are
C10_Original ==
    (Constructed /\ ctorArgs.bucket_name = "missing") => ctorRes.error = "bucket"

\* C10 (amended): a constructor called with a Cluster instance and the name
\* of a bucket that does not exist reports the missing bucket, whatever the
\* scope, the collection, the index, the connection and the ttl are; the
\* vector store does so when, in addition, its embedding and its scope,
\* collection and index names are not empty
C10_Amended ==
    (/\ Constructed
     /\ ctorArgs.bucket_name = "missing"
     /\ ctorArgs.cluster_ok
     /\ ctorArgs.component = "CouchbaseVectorStore" =>
           /\ ctorArgs.embedding_ok
           /\ ctorArgs.scope_name # "empty"
           /\ ctorArgs.collection_name # "empty"
           /\ ctorArgs.index_name # "empty")
    => ctorRes.error = "bucket"

\* the missing bucket is reported although the connection, the scope, the
\* ttl and the embedding are faulty as well
C10_Witness ==
    /\ Constructed
    /\ ctorArgs.component = "CouchbaseSemanticCache"
    /\ ctorArgs.bucket_name = "missing"
    /\ ctorArgs.cluster_ok
    /\ ~ctorArgs.connect_ok
    /\ ~ctorArgs.embedding_ok
    /\ ctorArgs.scope_name = "missing"
    /\ ctorArgs.ttl = "nottimedelta"
    /\ ctorRes.error = "bucket"

\* the errors that name a resource the constructor did not find
NamingErrors == {"bucket", "scope", "collection", "index"}

\* the first resource, in the order bucket, scope, collection, index, that
\* the constructor's arguments do not name on the cluster (the caches built
\* on a key-value collection and the history use no index)
FirstMissing(a) ==
    IF a.bucket_name # "exists" THEN "bucket"
    ELSE IF a.scope_name # "exists" THEN "scope"
    ELSE IF a.collection_name # "exists" THEN "collection"
    ELSE IF /\ a.component \in {"CouchbaseVectorStore", "CouchbaseSemanticCache"}
            /\ a.index_name # "exists"
         THEN "index"
    ELSE None

\* arguments that pass every check other than the search for the resources
OtherwiseValid(a) ==
    /\ a.cluster_ok
    /\ a.embedding_ok
    /\ a.connect_ok
    /\ a.ttl \in {"none", "valid"}
    /\ "empty" \notin {a.bucket_name, a.scope_name, a.collection_name, a.index_name}

\* C11: a naming error raised by a constructor names the first missing
\* resource in the order bucket, scope, collection, index (so the index is
\* looked for only once bucket, scope and collection are found), and a
\* constructor whose arguments are otherwise valid raises exactly that error
C11_StableOrder ==
    Constructed =>
        /\ ctorRes.error \in NamingErrors => ctorRes.error = FirstMissing(ctorArgs)
        /\ OtherwiseValid(ctorArgs) => ctorRes.error = FirstMissing(ctorArgs)

\* the collection and the index are both missing: the collection is named
C11_Witness ==
    /\ Constructed
    /\ ctorArgs.component = "CouchbaseVectorStore"
    /\ OtherwiseValid(ctorArgs)
    /\ ctorArgs.bucket_name = "exists"
    /\ ctorArgs.scope_name = "exists"
    /\ ctorArgs.collection_name = "missing"
    /\ ctorArgs.index_name = "missing"
    /\ ctorRes.error = "collection"

\* ----------------------------------------------------------- claims: ttl
\* C12: a write called with a ttl that is not positive is rejected with an
\* error before anything is written
C12_InvalidTtlRejected ==
    [][(vsRes'.op = "add_texts" /\ vsRes'.ttl_given /\ vsRes'.ttl <= 0)
          => (vsRes'.raised # None /\ docs' = docs)]_vars

\* ------------------------------------------ claims: scope and collection check
HasScope(c) == \E i \in DOMAIN c.scopes : c.scopes[i].name = c.scope_name
HasCollection(c) ==
    \E i \in DOMAIN c.scopes :
        c.scopes[i].name = c.scope_name /\ c.collection_name \in c.scopes[i].collections

\* C13: the check succeeds exactly when the named scope exists and holds the
\* named collection; it names the scope when no scope has the name, and the
\* collection when the scope exists without it
C13_ScopeCheck ==
    callRes.done =>
        /\ callRes.error = None <=> HasCollection(callArgs)
        /\ callRes.error = "scope" <=> ~HasScope(callArgs)
        /\ callRes.error = "collection" <=> (HasScope(callArgs) /\ ~HasCollection(callArgs))

\* the collection exists in another scope only: the collection is named
C13_Witness ==
    /\ callRes.done
    /\ callArgs.fn = "check_scope_and_collection_exists"
    /\ Len(callArgs.scopes) = 2
    /\ HasScope(callArgs)
    /\ ~HasCollection(callArgs)
    /\ \E i \in DOMAIN callArgs.scopes :
          callArgs.collection_name \in callArgs.scopes[i].collections
    /\ callRes.error = "collection"

\* ------------------------------------------------- claims: batches of writes
\* the id add_texts uses for the text at position p
IdAt(res, ctr, p) == IF res.ids_given THEN res.ids[p] ELSE uuid4(ctr + p)

\* the chunk (counted from 1) that holds position p
ChunkAt(res, p) ==
    ((p - 1) \div (IF res.batch_size = 0 THEN VS_DEFAULT_BATCH_SIZE ELSE res.batch_size)) + 1

\* position p reaches upsert_multi: zip() drops a text without metadata
Zipped(res, p) == res.meta_len < 0 \/ p <= res.meta_len

\* an add_texts call whose chunk j fails has attempted the chunks 1..j and no
\* other, holds every document of the chunks before j and raises
StopsAtFailedChunk(res, ctr, after) ==
    /\ res.raised # None
    /\ res.attempted = res.fail_at
    /\ \A p \in DOMAIN res.texts :
          (ChunkAt(res, p) < res.fail_at /\ Zipped(res, p)) =>
              /\ IdAt(res, ctr, p) \in DOMAIN after
              /\ (\A q \in DOMAIN res.texts : q > p => IdAt(res, ctr, q) # IdAt(res, ctr, p))
                    => after[IdAt(res, ctr, p)].text = res.texts[p]

\* C14: add_texts writes its chunks one after another; when chunk j fails,
\* what the chunks before j wrote stays stored, no chunk after j is
\* attempted, and the call raises
C14_NotAtomic ==
    [][(vsRes'.op = "add_texts" /\ vsRes'.fail_at > 0)
          => StopsAtFailedChunk(vsRes', uuidCtr, docs')]_vars

\* the second of two chunks failed: the document of the first is stored, the
\* document of the second is not
C14_Witness ==
    /\ vsRes.op = "add_texts"
    /\ vsRes.fail_at = 2
    /\ vsRes.raised # None
    /\ vsRes.ids_given
    /\ Len(vsRes.texts) = 2
    /\ vsRes.ids[1] \in DOMAIN docs
    /\ docs[vsRes.ids[1]].text = vsRes.texts[1]
    /\ vsRes.ids[2] \notin DOMAIN docs

\* the chunks a delete call has to send
ChunksToDelete(res) ==
    IF res.batch_size > 0 THEN VSNumChunks(Len(res.ids), res.batch_size) ELSE 0

\* every chunk was sent and returned, and the result is true exactly when
\* every chunk reported full success
AllChunksCount(res) ==
    /\ res.raised = None
    /\ Len(res.chunk_ok) = ChunksToDelete(res)
    /\ res.status <=> (\A c \in DOMAIN res.chunk_ok : res.chunk_ok[c])

DocAt(res, p) ==
    [text |-> res.texts[p],
     metadata |-> IF res.meta_len < 0 THEN NoMetadata ELSE PageMetadata,
     embedding |-> embed_query(res.texts[p]),
     expiry |-> (res.ttl # 0)]

\* every id of the call holds the document of its (last) position, whether
\* or not it was stored before, and every other document is as it was
Upserted(res, ctr, before, after) ==
    /\ res.raised = None
    /\ \A p \in DOMAIN res.texts :
          (/\ Zipped(res, p)
           /\ \A q \in DOMAIN res.texts :
                 (q > p /\ Zipped(res, q)) => IdAt(res, ctr, q) # IdAt(res, ctr, p))
          => /\ IdAt(res, ctr, p) \in DOMAIN after
             /\ after[IdAt(res, ctr, p)] = DocAt(res, p)
    /\ \A id \in DOMAIN before :
          (\A p \in DOMAIN res.texts : IdAt(res, ctr, p) # id)
          => (id \in DOMAIN after /\ after[id] = before[id])

PageField == _metadata_key \o <<".">> \o <<"page">>

\* C17: the field list a similarity search sends is ["*"] or contains the
\* text key, whatever fields the caller passes; with fields = ["metadata.page"]
\* every returned document carries its stored text, and its metadata is the
\* stored page alone
C17_TextRequested ==
    IsSearch(vsRes) =>
        /\ vsRes.sent_fields = <<Star>> \/ _default_text_key \in SeqRange(vsRes.sent_fields)
        /\ (/\ KwFields(vsRes.kwargs) = <<PageField>>
            /\ vsRes.backend = "ok")
           => /\ vsRes.raised = None
              /\ \A i \in DOMAIN vsRes.docs :
                    LET stored == index[vsRes.docs[i].id]
                    IN  /\ vsRes.docs[i].page_content = stored.text
                        /\ vsRes.docs[i].metadata =
                              [key \in {<<"page">>} \cap DOMAIN stored.metadata |->
                                  stored.metadata[key]]

\* a search with fields = ["metadata.page"] has returned a document that is
\* stored with page and source: it has its text, and page is its metadata
C17_Witness ==
    /\ IsSearch(vsRes)
    /\ "fields" \in vsRes.kwargs.names
    /\ vsRes.kwargs.fields = <<PageField>>
    /\ vsRes.sent_fields = <<PageField, _default_text_key>>
    /\ \E i \in DOMAIN vsRes.docs :
          /\ DOMAIN index[vsRes.docs[i].id].metadata = {<<"page">>, <<"source">>}
          /\ vsRes.docs[i].page_content = index[vsRes.docs[i].id].text
          /\ vsRes.docs[i].page_content # <<>>
          /\ DOMAIN vsRes.docs[i].metadata = {<<"page">>}


\* row.fields of the i-th row the last search was streamed
FieldsOfRow(res, i) ==
    StreamedFields(index[res.rows[i]], res.sent_fields, res.backend, i, Len(res.rows))

\* C18: when a streamed row has no fields, at whatever position, the search
\* raises ValueError and returns no document; when every row has fields the
\* search does not raise, and a row without the text field yields a document
\* with empty text
C18_EmptyRowRaises ==
    (IsSearch(vsRes) /\ vsRes.backend # "error") =>
        IF \E i \in DOMAIN vsRes.rows : DOMAIN FieldsOfRow(vsRes, i) = {}
        THEN vsRes.raised = "ValueError" /\ vsRes.docs = <<>> /\ vsRes.scores = <<>>
        ELSE /\ vsRes.raised = None
             /\ Len(vsRes.docs) = Len(vsRes.rows)
             /\ \A i \in DOMAIN vsRes.rows :
                   _default_text_key \notin DOMAIN FieldsOfRow(vsRes, i)
                   => vsRes.docs[i].page_content = <<>>

\* the second of two streamed rows has no fields, the first has: ValueError
C18_Witness ==
    /\ IsSearch(vsRes)
    /\ vsRes.backend = "nofields_last"
    /\ Len(vsRes.rows) = 2
    /\ DOMAIN FieldsOfRow(vsRes, 1) # {}
    /\ DOMAIN FieldsOfRow(vsRes, 2) = {}
    /\ vsRes.raised = "ValueError"
    /\ vsRes.docs = <<>>

\* a row with metadata fields and no text field has become a document
RowWithoutTextReturned ==
    /\ IsSearch(vsRes)
    /\ vsRes.backend = "notext"
    /\ vsRes.raised = None
    /\ \E i \in DOMAIN vsRes.docs :
          vsRes.docs[i].page_content = <<>> /\ vsRes.docs[i].metadata # <<>>



\* the score the search service gives the i-th streamed row
RowScore(res, i) == Dot(index[res.rows[i]].embedding, embed_query(res.query))

\* C20: a search that returns has one entry per streamed row, in streaming
\* order, with the row's id and (for the methods with scores) the row's own
\* score; similarity_search and similarity_search_by_vector return the
\* documents of similarity_search_with_score_by_vector's pairs, and
\* similarity_search(q) is similarity_search_by_vector(embed_query(q))
C20_RowsAsStreamed ==
    IsSearch(vsRes) =>
        LET pairs == similarity_search_with_score_by_vector(
                         index, embed_query(vsRes.query), vsRes.k, vsRes.kwargs,
                         vsRes.rows, vsRes.backend)
            by_vector == similarity_search_by_vector(
                             index, embed_query(vsRes.query), vsRes.k, vsRes.kwargs,
                             vsRes.rows, vsRes.backend)
            with_score == vsRes.op \in {"similarity_search_with_score",
                                        "similarity_search_with_score_by_vector"}
        IN  /\ vsRes.raised = pairs.raised
            /\ vsRes.docs = [i \in DOMAIN pairs.docs_with_score |-> pairs.docs_with_score[i].doc]
            /\ vsRes.op = "similarity_search"
               => (vsRes.docs = by_vector.docs /\ vsRes.raised = by_vector.raised)
            /\ vsRes.raised = None
               => /\ Len(vsRes.docs) = Len(vsRes.rows)
                  /\ \A i \in DOMAIN vsRes.rows : vsRes.docs[i].id = vsRes.rows[i]
                  /\ with_score
                     => vsRes.scores = [i \in DOMAIN vsRes.rows |-> RowScore(vsRes, i)]

\* two rows were streamed worst score first and came back in that order
C20_Witness ==
    /\ vsRes.op = "similarity_search_with_score"
    /\ vsRes.raised = None
    /\ Len(vsRes.rows) = 2
    /\ RowScore(vsRes, 1) < RowScore(vsRes, 2)
    /\ vsRes.docs[1].id = vsRes.rows[1]
    /\ vsRes.docs[2].id = vsRes.rows[2]
    /\ vsRes.scores = <<RowScore(vsRes, 1), RowScore(vsRes, 2)>>

\* ------------------------------------------------- claims: metadata of a row
\* the metadata key of a returned field: what follows its "metadata." prefix,
\* its own name when it has none
Unprefixed(f) ==
    IF StartsWith(f, _metadata_key \o <<".">>) THEN SubSeq(f, 3, Len(f)) ELSE f

\* C19: the metadata of the document built from a row holds, for every
\* returned field but the text field, the field's value under the whole of
\* what follows its "metadata." prefix (under its own name when it has no
\* prefix), and nothing else
C19_MetadataReconstructed ==
    (callArgs.fn = "_format_metadata" /\ callRes.done) =>
        LET rest == DOMAIN callArgs.row_fields \ {_default_text_key}
        IN  /\ DOMAIN callRes.doc.metadata = {Unprefixed(f) : f \in rest}
            /\ \A f \in rest :
                  callRes.doc.metadata[Unprefixed(f)] = callArgs.row_fields[f]
            /\ _default_text_key \notin DOMAIN callRes.doc.metadata


\* ------------------------------------------- claims: chat history failures
\* C21: reading the messages never raises, and a read whose query fails, at
\* submission or while its rows are streamed, returns the empty list
C21_EmptyOnQueryFailure ==
    chatRes.op = "messages" =>
        /\ chatRes.raised = None
        /\ ~chatRes.allOk => chatRes.rows = <<>>


\* ------------------------------------------------------- claims: cache clear
\* what a clear step of either cache does: it never raises; a successful
\* bulk delete empties the collection, a failed one leaves it as it was
ClearEffect ==
    /\ cacheRes'.op = "clear"
       => /\ cacheRes'.raised = None
          /\ cacheRes'.backend = "ok" => kv' = <<>>
          /\ cacheRes'.backend # "ok" => kv' = kv
    /\ (semRes'.op = "clear" /\ semRes' # semRes)
       => /\ semRes'.raised = None
          /\ semRes'.backend = "ok" => semDocs' = <<>>
          /\ semRes'.backend # "ok" => semDocs' = semDocs

\* a lookup of the keyed cache on an emptied collection returns absent
KeyedAbsentAfterClear ==
    (cacheRes'.op = "lookup" /\ kv = <<>>) => (~cacheRes'.hit /\ cacheRes'.raised = None)

\* C22 as stated: clear never raises, a successful clear empties the
\* collection so that every lookup before the next update finds nothing, a
\* failed clear changes nothing
C22_Original ==
    [][/\ ClearEffect
       /\ KeyedAbsentAfterClear
       /\ (semRes'.op = "lookup" /\ semDocs = <<>>) => ~semRes'.hit]_vars

\* C22 amended: as stated, a lookup of the semantic cache finding nothing
\* once the search index has caught up with the emptied collection
C22_Amended ==
    [][/\ ClearEffect
       /\ KeyedAbsentAfterClear
       /\ (semRes'.op = "lookup" /\ semDocs = <<>> /\ semIndex = <<>>) => ~semRes'.hit]_vars

\* the semantic cache was updated and cleared, its index has caught up, and
\* a lookup has found nothing
C22_Witness ==
    /\ semRes.op = "lookup"
    /\ semRes.backend = "ok"
    /\ semCtr = 1
    /\ semTtl = 0
    /\ semDocs = <<>>
    /\ semIndex = <<>>
    /\ ~semRes.hit
    /\ semRes.raised = None


\* ---------------------------------------------- claims: chat history clear
\* C23: clear on the history of session S removes every record of S when its
\* DELETE succeeds (none when it fails) and leaves the records of every
\* other session as they were: each other session keeps its keys, every
\* one with the record it had
C23_SessionScoped ==
    [][chatRes'.op = "clear"
          => LET S == chatRes'.session
             IN  /\ chatRes'.allOk => SessionKeys(records', S) = {}
                 /\ ~chatRes'.allOk => records' = records
                 /\ DOMAIN records' \subseteq DOMAIN records
                 /\ \A k \in DOMAIN records :
                       records[k].session_id # S
                       => (k \in DOMAIN records' /\ records'[k] = records[k])
                 /\ \A T \in Sessions \ {S} :
                       SessionKeys(records', T) = SessionKeys(records, T)]_vars

\* a clear has removed the records of its session and another session still
\* has a record
C23_Witness ==
    /\ chatRes.op = "clear"
    /\ chatRes.allOk
    /\ chatRes.n >= 1
    /\ SessionKeys(records, chatRes.session) = {}
    /\ \E T \in Sessions \ {chatRes.session} : SessionKeys(records, T) # {}


\* ------------------------------------------- claims: chat history batches
\* the keys of the messages of chunk j of an add_messages call
MessageKeys(res, j) ==
    {res.first + i - 1 :
        i \in ((j - 1) * DEFAULT_BATCH_SIZE + 1)..Min(j * DEFAULT_BATCH_SIZE, res.n)}

\* the first chunk whose write failed, 0 when none did
FirstFailedChunk(res) ==
    LET bad == {j \in DOMAIN res.outcomes : res.outcomes[j].kind # "ok"}
    IN  IF bad = {} THEN 0 ELSE CHOOSE j \in bad : \A l \in bad : j <= l

\* C24: add_messages writes its messages in chunks of at most
\* DEFAULT_BATCH_SIZE, in input order, each under a fresh key and at most
\* once; it never raises, and when the write of chunk j fails the records of
\* the chunks before j are stored and no message of a chunk after j is
C24_AtMostOnceChunked ==
    [][chatRes'.op = "add_messages"
          => LET res == chatRes'
                 j == FirstFailedChunk(res)
                 keys == res.first..(res.first + res.n - 1)
             IN  /\ res.raised = None
                 /\ keys \cap DOMAIN records = {}
                 /\ DOMAIN records' \subseteq DOMAIN records \cup keys
                 /\ \A k \in keys \cap DOMAIN records' :
                       records'[k].message = message_to_dict(k)
                 /\ j = 0 => keys \subseteq DOMAIN records'
                 /\ j > 0 =>
                       /\ \A i \in 1..(j - 1) : MessageKeys(res, i) \subseteq DOMAIN records'
                       /\ \A i \in (j + 1)..Len(res.outcomes) :
                             MessageKeys(res, i) \cap DOMAIN records' = {}]_vars


\* -------------------------------------------- claims: delete and not-found
\* the ids of chunk c of a delete call
DeleteChunkIds(res, c) ==
    {res.ids[p] : p \in ((c - 1) * res.batch_size + 1)..Min(c * res.batch_size, Len(res.ids))}

LaterChunkStillStored ==
    /\ vsRes.op = "delete"
    /\ vsRes.raise_kind = "notfound"
    /\ vsRes.raised = "ValueError"
    /\ vsRes.batch_size = 1
    /\ vsRes.ids = <<<<"a">>, <<"b">>>>
    /\ vsRes.chunk_ok = <<>>
    /\ <<"b">> \in DOMAIN docs


\* ------------------------------------------ claims: concurrent chat callers
AllReturned == \A c \in Callers : callRes.procs[c].pc = "done"
NoBackendFailure == \A c \in Callers : ~callRes.procs[c].failed
RecordsOf(payload) ==
    {k \in DOMAIN records :
        /\ records[k].message = message_to_dict(payload)
        /\ records[k].session_id = ConcSession}

\* C26: once the concurrent add_message / add_messages calls on a session
\* have all returned without a backend failure, every message of every call
\* is stored exactly once, and nothing else is
C26_EachMessageOnce ==
    (callArgs.fn = "concurrent" /\ AllReturned /\ NoBackendFailure) =>
        /\ \A c \in Callers : \A i \in 1..callArgs.calls[c].n :
              Cardinality(RecordsOf(ConcPayload(c, i))) = 1
        /\ \A k \in DOMAIN records :
              \E c \in Callers : \E i \in 1..callArgs.calls[c].n :
                  k \in RecordsOf(ConcPayload(c, i))

\* an add_message and an add_messages of two chunks have both returned, the
\* other caller's key generated between the keys of the two chunks
C26_Witness ==
    /\ callArgs.fn = "concurrent"
    /\ AllReturned
    /\ NoBackendFailure
    /\ callArgs.calls["c1"].kind = "add_message"
    /\ callArgs.calls["c2"] = [kind |-> "add_messages", n |-> DEFAULT_BATCH_SIZE + 1]
    /\ callRes.procs["c2"].keys[1] < callRes.procs["c1"].keys[1]
    /\ callRes.procs["c1"].keys[1] < callRes.procs["c2"].keys[DEFAULT_BATCH_SIZE + 1]
    /\ Cardinality(DOMAIN records) = DEFAULT_BATCH_SIZE + 2


\* ------------------------------------------------ claims: instance fields
\* the fields of the instances that a constructor argument sets
InstanceFields == <<cacheTtl, chatTtl, semTtl, score_threshold>>

\* C27: no operation of a cache, a chat history or a vector store changes a
\* field of its instance, and an assignment to messages raises and changes
\* neither a field nor a stored record
C27_ReadOnlyInstances ==
    [][/\ InstanceFields' = InstanceFields
       /\ chatRes'.op = "set_messages"
          => (chatRes'.raised = "NotImplementedError" /\ records' = records)]_vars

\* a history constructed with a ttl has stored a message, and an assignment
\* to its messages was refused: the ttl and the message are in place
C27_Witness ==
    /\ chatRes.op = "set_messages"
    /\ chatRes.raised = "NotImplementedError"
    /\ chatTtl = 1
    /\ \E k \in DOMAIN records : records[k].expiry


\* ---------------------------------------------- claims: keys of the cache
\* C28: a lookup of the keyed cache returns a value for (prompt, llm_string)
\* only if an update was made with exactly that prompt and that llm_string:
\* the entries of distinct pairs are independent, also when the two pairs
\* concatenate to the same string
C28_PairsIndependent ==
    (cacheRes.op = "lookup" /\ cacheRes.hit)
        => written[<<cacheRes.prompt, cacheRes.llm>>].set


\* ------------------------------------------- claims: arguments of a search
\* C29: a similarity search leaves the fields list the caller passed with
\* the elements it had before the call
C29_ArgumentsUntouched ==
    (IsSearch(vsRes) /\ "fields" \in vsRes.kwargs.names)
        => vsRes.fields_after = vsRes.kwargs.fields


\* ------------------------------------------------- claims: order of a read
\* the position of the message handed over as the k-th in what a read returned
PositionOf(res, k) == CHOOSE i \in DOMAIN res.rows : res.rows[i] = k
Returned(res, k) == \E i \in DOMAIN res.rows : res.rows[i] = k
StoredFor(session) == SessionKeys(records, session)

\* C30 as stated: with a clock that has never gone backwards, a read returns
\* the stored messages of its session in the order they were handed over
C30_Original ==
    (chatRes.op = "messages" /\ ~clockBack) =>
        \A a, b \in StoredFor(chatRes.session) :
            a < b => /\ Returned(chatRes, a)
                     /\ Returned(chatRes, b)
                     /\ PositionOf(chatRes, a) < PositionOf(chatRes, b)

\* C30 amended: a read whose query succeeded returns a before b whenever a
\* was handed over before b, both are stored for the session, and the
\* timestamp of a is smaller than that of b
C30_Amended ==
    (chatRes.op = "messages" /\ chatRes.allOk) =>
        \A a, b \in StoredFor(chatRes.session) :
            (a < b /\ records[a].ts < records[b].ts)
            => /\ Returned(chatRes, a)
               /\ Returned(chatRes, b)
               /\ PositionOf(chatRes, a) < PositionOf(chatRes, b)

\* a read has returned, in the order of their adding, two messages of which
\* the second got the larger timestamp
C30_Witness ==
    /\ chatRes.op = "messages"
    /\ chatRes.allOk
    /\ ~clockBack
    /\ \E a, b \in StoredFor(chatRes.session) :
          /\ a < b
          /\ records[a].ts < records[b].ts
          /\ Returned(chatRes, a)
          /\ Returned(chatRes, b)
          /\ PositionOf(chatRes, a) < PositionOf(chatRes, b)

\* two messages with one timestamp, read back against the order of adding
TieReadBackwards ==
    /\ chatRes.op = "messages"
    /\ chatRes.allOk
    /\ ~clockBack
    /\ \E a, b \in StoredFor(chatRes.session) :
          /\ a < b
          /\ records[a].ts = records[b].ts
          /\ Returned(chatRes, a)
          /\ Returned(chatRes, b)
          /\ PositionOf(chatRes, b) < PositionOf(chatRes, a)

====
